---- MODULE Spec2Model ----
(***************************************************************************)
(* Partner deal-registration API: the sheet-as-database access layer       *)
(* (googleSheetsService), the login flows (authService, routes/auth), the  *)
(* authentication middleware (middleware/auth) and the deals and admin     *)
(* routers, modelled as a state machine over the spreadsheet's grids.      *)
(*                                                                         *)
(* Text is a sequence of one-character strings, so that toLowerCase, trim  *)
(* and strict equality are computed on the characters.  A grid is a        *)
(* sequence of rows, a row a sequence of cells, a cell a text.             *)
(***************************************************************************)
EXTENDS Integers, Sequences, FiniteSets, TLC

(* ---------------------------------------------------------------------- *)
(* String literals of the source                                          *)
(* ---------------------------------------------------------------------- *)
S_id == <<"i", "d">>
S_email == <<"e", "m", "a", "i", "l">>
S_first_name == <<"f", "i", "r", "s", "t", "_", "n", "a", "m", "e">>
S_last_name == <<"l", "a", "s", "t", "_", "n", "a", "m", "e">>
S_partner_company == <<"p", "a", "r", "t", "n", "e", "r", "_", "c", "o", "m", "p", "a", "n", "y">>
S_role == <<"r", "o", "l", "e">>
S_status == <<"s", "t", "a", "t", "u", "s">>
S_created_at == <<"c", "r", "e", "a", "t", "e", "d", "_", "a", "t">>
S_company_name == <<"c", "o", "m", "p", "a", "n", "y", "_", "n", "a", "m", "e">>
S_domain == <<"d", "o", "m", "a", "i", "n">>
S_submitter_email == <<"s", "u", "b", "m", "i", "t", "t", "e", "r", "_", "e", "m", "a", "i", "l">>
S_active == <<"a", "c", "t", "i", "v", "e">>
S_user == <<"u", "s", "e", "r">>
S_admin == <<"a", "d", "m", "i", "n">>
S_submitted == <<"s", "u", "b", "m", "i", "t", "t", "e", "d">>
S_rejected == <<"r", "e", "j", "e", "c", "t", "e", "d">>
S_DaxaInternal == <<"D", "a", "x", "a", " ", "I", "n", "t", "e", "r", "n", "a", "l">>
S_ExternalPartner == <<"E", "x", "t", "e", "r", "n", "a", "l", " ", "P", "a", "r", "t", "n", "e", "r">>
S_system == <<"s", "y", "s", "t", "e", "m">>
S_techflow_com == <<"t", "e", "c", "h", "f", "l", "o", "w", ".", "c", "o", "m">>
S_digitalinnovations_com == <<"d", "i", "g", "i", "t", "a", "l", "i", "n", "n", "o", "v", "a", "t", "i", "o", "n", "s", ".", "c", "o", "m">>
S_cloudware_com == <<"c", "l", "o", "u", "d", "w", "a", "r", "e", ".", "c", "o", "m">>
S_databridge_com == <<"d", "a", "t", "a", "b", "r", "i", "d", "g", "e", ".", "c", "o", "m">>
S_daxa_ai == <<"d", "a", "x", "a", ".", "a", "i">>
S_my_deals == <<"m", "y", "-", "d", "e", "a", "l", "s">>
S_stats == <<"s", "t", "a", "t", "s">>
S_summary == <<"s", "u", "m", "m", "a", "r", "y">>
S_check_duplicate == <<"c", "h", "e", "c", "k", "-", "d", "u", "p", "l", "i", "c", "a", "t", "e">>
S_profile == <<"p", "r", "o", "f", "i", "l", "e">>
S_deals == <<"d", "e", "a", "l", "s">>
S_add == <<"a", "d", "d">>
S_adminAtDaxa == <<"a", "d", "m", "i", "n", "@", "d", "a", "x", "a", ".", "a", "i">>
S_admin123 == <<"a", "d", "m", "i", "n", "1", "2", "3">>

(* ---------------------------------------------------------------------- *)
(* Texts of the bounded input universe: e-mail addresses, ids, names       *)
(* ---------------------------------------------------------------------- *)
E_alice == <<"a", "@", "t", "e", "c", "h", "f", "l", "o", "w", ".", "c", "o", "m">>
E_ALICE == <<"A", "@", "T", "e", "c", "h", "F", "l", "o", "w", ".", "c", "o", "m">>
E_bob == <<"b", "@", "x", ".", "c", "o", "m">>
ID_alice == <<"g", "1">>
ID_bob == <<"g", "2">>
ID_carol == <<"g", "3">>
E_carol == <<"c", "@", "x", ".", "c", "o", "m">>
N_Al == <<"A", "l">>
N_Bo == <<"B", "o">>
D_1 == <<"d", "1">>
D_2 == <<"d", "2">>
D_3 == <<"d", "3">>
C_Acme == <<"A", "c", "m", "e">>
C_acme == <<"a", "c", "m", "e">>
C_Zeta == <<"Z", "e", "t", "a">>
W_acme_com == <<"a", "c", "m", "e", ".", "c", "o", "m">>
W_zeta_io == <<"z", "e", "t", "a", ".", "i", "o">>
T_0 == <<"2", "0", "2", "5", "-", "0", "1", "-", "0", "1">>

\* values that a sheet reads as a number, or as text marked by an apostrophe
V_007 == <<"0", "0", "7">>
V_quoted == <<"'", "g", "1">>

\* a status typed into a sheet by hand that is not 'active'
V_inactive == <<"i", "n", "a", "c", "t", "i", "v", "e">>

(* ---------------------------------------------------------------------- *)
(* JavaScript values and string operations used by the handlers           *)
(* ---------------------------------------------------------------------- *)
\* the value of a missing array element or object property
Undefined == <<"undefined">>

\* the empty string ''
EmptyString == <<>>

UpperChars == <<"A","B","C","D","E","F","G","H","I","J","K","L","M","N","O","P","Q","R","S","T","U","V","W","X","Y","Z">>

LowerChars == <<"a","b","c","d","e","f","g","h","i","j","k","l","m","n","o","p","q","r","s","t","u","v","w","x","y","z">>

\* one character of String.prototype.toLowerCase
LowerChar(c) ==
  IF \E k \in DOMAIN UpperChars : UpperChars[k] = c
    THEN LowerChars[CHOOSE k \in DOMAIN UpperChars : UpperChars[k] = c]
    ELSE c

\* String.prototype.toLowerCase
toLowerCase(s) == [k \in DOMAIN s |-> LowerChar(s[k])]

RECURSIVE trimStart(_)
trimStart(s) == IF s # <<>> /\ Head(s) = " " THEN trimStart(Tail(s)) ELSE s

RECURSIVE trimEnd(_)
trimEnd(s) == IF s # <<>> /\ s[Len(s)] = " " THEN trimEnd(SubSeq(s, 1, Len(s) - 1)) ELSE s

\* String.prototype.trim
trim(s) == trimEnd(trimStart(s))

\* JavaScript truthiness of a string-or-undefined value
Truthy(v) == v # Undefined /\ v # EmptyString

\* the expression  v || ''
OrEmpty(v) == IF Truthy(v) THEN v ELSE EmptyString

\* Array.prototype.indexOf, 1-based; 0 stands for JavaScript's -1
indexOf(arr, x) ==
  IF \E k \in DOMAIN arr : arr[k] = x
    THEN CHOOSE k \in DOMAIN arr : arr[k] = x /\ \A j \in 1..(k - 1) : arr[j] # x
    ELSE 0

\* arr[index] for an index returned by indexOf: undefined when out of range
At(arr, k) == IF k \in DOMAIN arr THEN arr[k] ELSE Undefined

\* the object built by  headers.forEach((header, index) => obj[header] = row[index] || '')
\* (a later duplicate header overwrites an earlier one)
rowObject(headers, row) ==
  [h \in {headers[k] : k \in DOMAIN headers} |->
     LET last == CHOOSE k \in DOMAIN headers :
                   headers[k] = h /\ \A j \in DOMAIN headers : headers[j] = h => j <= k
     IN OrEmpty(At(row, last))]

\* obj.name for a property that may be missing
Prop(obj, name) == IF name \in DOMAIN obj THEN obj[name] ELSE Undefined

Min(a, b) == IF a < b THEN a ELSE b

(* ---------------------------------------------------------------------- *)
(* The spreadsheet: one grid per sheet, as spreadsheets.values.get         *)
(* returns it (row 1 is the header; blank trailing cells are not stored)   *)
(* ---------------------------------------------------------------------- *)
UsersHeader == <<S_id, S_email, S_first_name, S_last_name, S_partner_company, S_role, S_status, S_created_at>>

AdminsHeader == <<S_email, <<"a", "d", "d", "e", "d", "_", "b", "y">>, <<"a", "d", "d", "e", "d", "_", "a", "t">>, S_status>>

DealsHeader ==
  << S_id,
     S_status,
     S_created_at,
     S_company_name,
     S_domain,
     S_partner_company,
     <<"s", "u", "b", "m", "i", "t", "t", "e", "r", "_", "n", "a", "m", "e">>,   \* submitter_name
     S_submitter_email,
     <<"t", "e", "r", "r", "i", "t", "o", "r", "y">>,   \* territory
     <<"c", "u", "s", "t", "o", "m", "e", "r", "_", "i", "n", "d", "u", "s", "t", "r", "y">>,   \* customer_industry
     <<"c", "u", "s", "t", "o", "m", "e", "r", "_", "l", "o", "c", "a", "t", "i", "o", "n">>,   \* customer_location
     <<"d", "e", "a", "l", "_", "s", "t", "a", "g", "e">>,   \* deal_stage
     <<"e", "x", "p", "e", "c", "t", "e", "d", "_", "c", "l", "o", "s", "e", "_", "d", "a", "t", "e">>,   \* expected_close_date
     <<"d", "e", "a", "l", "_", "v", "a", "l", "u", "e">>,   \* deal_value
     <<"c", "o", "n", "t", "r", "a", "c", "t", "_", "t", "y", "p", "e">>,   \* contract_type
     <<"p", "r", "i", "m", "a", "r", "y", "_", "p", "r", "o", "d", "u", "c", "t">>,   \* primary_product
     <<"a", "d", "d", "i", "t", "i", "o", "n", "a", "l", "_", "n", "o", "t", "e", "s">>,   \* additional_notes
     <<"c", "u", "s", "t", "o", "m", "e", "r", "_", "l", "e", "g", "a", "l", "_", "n", "a", "m", "e">> >>   \* customer_legal_name

RECURSIVE dropTrailingBlanks(_)
dropTrailingBlanks(row) ==
  IF row # <<>> /\ ~Truthy(row[Len(row)])
    THEN dropTrailingBlanks(SubSeq(row, 1, Len(row) - 1))
    ELSE row

\* valueInputOption: 'USER_ENTERED': the sheet parses a value as if it were typed
\* into the cell, and values.get returns what the cell then displays. Of that
\* parsing: a leading apostrophe marks text and is not part of the cell, a run of
\* digits is a number and loses its leading zeros; other text is kept as sent.
RECURSIVE userEntered(_)
userEntered(v) ==
  IF Len(v) > 0 /\ Head(v) = "'" THEN Tail(v)
  ELSE IF Len(v) > 1 /\ Head(v) = "0"
          /\ \A k \in DOMAIN v : v[k] \in {"0", "1", "2", "3", "4", "5", "6", "7", "8", "9"}
    THEN userEntered(Tail(v))
    ELSE v

\* the row that spreadsheets.values.append stores for an array of values:
\* undefined becomes a blank cell, blank trailing cells are not kept
storedRow(values) ==
  dropTrailingBlanks([k \in DOMAIN values |-> userEntered(OrEmpty(values[k]))])

\* getSheetData answering an empty grid when the store cannot be reached
getSheetData_emptyOnError(grid, reachable) ==
  IF reachable THEN [ok |-> TRUE, data |-> grid] ELSE [ok |-> TRUE, data |-> <<>>]

\* result of getSheetData: the grid ("response.data.values || []"), or a throw
getSheetData(grid, reachable) ==
  IF reachable THEN [ok |-> TRUE, data |-> grid] ELSE [ok |-> FALSE, data |-> <<>>]

\* findRowByValue with a scan that stops one row short of the end
findRowByValue_offByOne(rd, columnName, searchValue) ==
  IF ~rd.ok THEN [t |-> "throw", error |-> "store error", row |-> <<>>]
  ELSE IF Len(rd.data) = 0 THEN [t |-> "null", error |-> "", row |-> <<>>]
  ELSE LET headers == rd.data[1]
           columnIndex == indexOf(headers, columnName)
           hits == {i \in 2..(Len(rd.data) - 1) : At(rd.data[i], columnIndex) = searchValue}
       IN IF columnIndex = 0 THEN [t |-> "throw", error |-> "Column not found", row |-> <<>>]
          ELSE IF hits = {} THEN [t |-> "null", error |-> "", row |-> <<>>]
          ELSE LET i == CHOOSE i \in hits : \A j \in hits : i <= j
               IN [t |-> "row", error |-> "", row |-> rowObject(headers, rd.data[i])]

\* result of findRowByValue on a getSheetData result:
\*   t = "throw" (the store's error rethrown, or column not found), "null", or "row"
findRowByValue(rd, columnName, searchValue) ==
  IF ~rd.ok THEN [t |-> "throw", error |-> "store error", row |-> <<>>]
  ELSE IF Len(rd.data) = 0 THEN [t |-> "null", error |-> "", row |-> <<>>]
  ELSE LET headers == rd.data[1]
           columnIndex == indexOf(headers, columnName)
           hits == {i \in 2..Len(rd.data) : At(rd.data[i], columnIndex) = searchValue}
       IN IF columnIndex = 0 THEN [t |-> "throw", error |-> "Column not found", row |-> <<>>]
          ELSE IF hits = {} THEN [t |-> "null", error |-> "", row |-> <<>>]
          ELSE LET i == CHOOSE i \in hits : \A j \in hits : i <= j
               IN [t |-> "row", error |-> "", row |-> rowObject(headers, rd.data[i])]

\* getAllRows without the "|| ''" on a cell
getAllRows_rawCells(rd) ==
  IF ~rd.ok THEN [t |-> "throw", rows |-> <<>>]
  ELSE IF Len(rd.data) < 2 THEN [t |-> "return", rows |-> <<>>]
  ELSE LET headers == rd.data[1]
       IN [t |-> "return",
           rows |-> [i \in 1..(Len(rd.data) - 1) |->
                       [h \in {headers[k] : k \in DOMAIN headers} |->
                          At(rd.data[i + 1], indexOf(headers, h))]]]

\* result of getAllRows on a getSheetData result: one row object per data row, or a throw
getAllRows(rd) ==
  IF ~rd.ok THEN [t |-> "throw", rows |-> <<>>]
  ELSE IF Len(rd.data) < 2 THEN [t |-> "return", rows |-> <<>>]
  ELSE LET headers == rd.data[1]
       IN [t |-> "return",
           rows |-> [i \in 1..(Len(rd.data) - 1) |-> rowObject(headers, rd.data[i + 1])]]

(* ---------------------------------------------------------------------- *)
(* middleware/auth.js                                                      *)
(* ---------------------------------------------------------------------- *)
\* checkAdminStatus answering yes when the sheet cannot be read
checkAdminStatus_failOpen(rd, email) ==
  IF ~rd.ok THEN TRUE
  ELSE IF Len(rd.data) <= 1 THEN FALSE
  ELSE LET headers == rd.data[1]
           emailIndex == indexOf(headers, S_email)
           statusIndex == indexOf(headers, S_status)
       IN \E i \in 2..Len(rd.data) :
            LET adminEmail == At(rd.data[i], emailIndex)
                adminStatus == At(rd.data[i], statusIndex)
            IN /\ Truthy(adminEmail)
               /\ adminStatus = S_active
               /\ toLowerCase(adminEmail) = toLowerCase(email)

\* checkAdminStatus comparing the emails as they are written
checkAdminStatus_exactCase(rd, email) ==
  IF ~rd.ok THEN FALSE
  ELSE IF Len(rd.data) <= 1 THEN FALSE
  ELSE LET headers == rd.data[1]
           emailIndex == indexOf(headers, S_email)
           statusIndex == indexOf(headers, S_status)
       IN \E i \in 2..Len(rd.data) :
            LET adminEmail == At(rd.data[i], emailIndex)
                adminStatus == At(rd.data[i], statusIndex)
            IN /\ Truthy(adminEmail)
               /\ adminStatus = S_active
               /\ adminEmail = email

\* checkAdminStatus on the result of its getSheetData('Admins') call
checkAdminStatus(rd, email) ==
  IF ~rd.ok THEN FALSE
  ELSE IF Len(rd.data) <= 1 THEN FALSE
  ELSE LET headers == rd.data[1]
           emailIndex == indexOf(headers, S_email)
           statusIndex == indexOf(headers, S_status)
       IN \E i \in 2..Len(rd.data) :
            LET adminEmail == At(rd.data[i], emailIndex)
                adminStatus == At(rd.data[i], statusIndex)
            IN /\ Truthy(adminEmail)
               /\ adminStatus = S_active
               /\ toLowerCase(adminEmail) = toLowerCase(email)

(* ---------------------------------------------------------------------- *)
(* services/authService.js and the jsonwebtoken calls                      *)
(* ---------------------------------------------------------------------- *)
\* email.split('@')[1]: the text between the first '@' and the next one
splitAt1(s) ==
  LET ats == {k \in DOMAIN s : s[k] = "@"}
  IN IF ats = {} THEN Undefined
     ELSE LET a == CHOOSE k \in ats : \A j \in ats : k <= j
              rest == {k \in ats : k > a}
              b == IF rest = {} THEN Len(s) + 1 ELSE CHOOSE k \in rest : \A j \in rest : k <= j
          IN SubSeq(s, a + 1, b - 1)

domainMappings ==
  [d \in {S_techflow_com, S_digitalinnovations_com, S_cloudware_com, S_databridge_com, S_daxa_ai} |->
     CASE d = S_techflow_com -> <<"T", "e", "c", "h", "F", "l", "o", "w", " ", "S", "o", "l", "u", "t", "i", "o", "n", "s">>
       [] d = S_digitalinnovations_com -> <<"D", "i", "g", "i", "t", "a", "l", " ", "I", "n", "n", "o", "v", "a", "t", "i", "o", "n", "s", " ", "I", "n", "c", ".">>
       [] d = S_cloudware_com -> <<"C", "l", "o", "u", "d", "W", "a", "r", "e", " ", "P", "a", "r", "t", "n", "e", "r", "s">>
       [] d = S_databridge_com -> <<"D", "a", "t", "a", "B", "r", "i", "d", "g", "e", " ", "C", "o", "n", "s", "u", "l", "t", "i", "n", "g">>
       [] d = S_daxa_ai -> S_DaxaInternal]

getPartnerCompanyFromEmail(email) ==
  LET part == splitAt1(email)
      domain == IF part = Undefined THEN Undefined ELSE toLowerCase(part)
  IN IF domain \in DOMAIN domainMappings THEN domainMappings[domain] ELSE S_ExternalPartner

\* expiresIn: '24h', in hours
TokenTTL == 24

\* getCurrentTimestamp() and Date.now(): no handler reads a timestamp back, so every
\* timestamp is rendered as the same text
getCurrentTimestamp == T_0

\* the payload signed by jwt.sign for a user row object, issued at `now`
tokenPayload(user, now) ==
  [id |-> Prop(user, S_id), email |-> Prop(user, S_email), role |-> Prop(user, S_role),
   partnerId |-> Prop(user, S_partner_company), iat |-> now]

NoPayload == [id |-> Undefined, email |-> Undefined, role |-> Undefined, partnerId |-> Undefined, iat |-> 0]

\* the Authorization header of a request:
\*   "none"      no header;            "bare"    'Bearer' with nothing after it
\*   "malformed" not a JWT;            "forged"  a JWT not signed with JWT_SECRET
\*   "signed"    a token this server issued
authHeader(kind, payload) == [kind |-> kind, payload |-> payload]

\* authHeader && authHeader.split(' ')[1] is truthy
hasToken(hdr) == hdr.kind \in {"malformed", "forged", "signed"}

\* jwt.verify with ignoreExpiration
jwtVerify_ignoreExpiration(hdr, now) ==
  IF hdr.kind \in {"malformed", "forged"} THEN [t |-> "JsonWebTokenError", decoded |-> NoPayload]
  ELSE [t |-> "ok", decoded |-> hdr.payload]

\* jwt.verify(token, JWT_SECRET) at time `now`: the decoded payload or the error thrown
jwtVerify(hdr, now) ==
  IF hdr.kind \in {"malformed", "forged"} THEN [t |-> "JsonWebTokenError", decoded |-> NoPayload]
  ELSE IF now >= hdr.payload.iat + TokenTTL THEN [t |-> "TokenExpiredError", decoded |-> NoPayload]
  ELSE [t |-> "ok", decoded |-> hdr.payload]

(* ---------------------------------------------------------------------- *)
(* Bounds of the model                                                     *)
(* ---------------------------------------------------------------------- *)
\* requests that can be in flight at the same time
NumSlots == 1

\* rows (header included) a sheet may grow to
MaxRows == 4

\* last hour at which the model starts a login
LoginsUntil == 0

\* last hour the clock reaches
MaxClock == 24

\* last row of the Users sheet that is edited by hand
MaxEditedRow == 2

Slots == 1..NumSlots

(* ---------------------------------------------------------------------- *)
(* State                                                                   *)
(* ---------------------------------------------------------------------- *)
VARIABLES
  sheets,   \* sheet name -> grid
  issued,   \* payloads of the tokens signed so far
  clock,    \* current time, in hours
  req,      \* slot -> the request being served there (its locals, req.user, response)
  service   \* the GoogleSheetsService object: initialized, and which call made auth and sheets

vars == <<sheets, issued, clock, req, service>>

\* the service object once initializeAuth has succeeded: auth and sheets hold the
\* clients that the first call created
ReadyService == [initialized |-> TRUE, auth |-> 1, sheets |-> 1]

\* req.user before any middleware has set it
NoUser ==
  [isSet |-> FALSE, id |-> Undefined, email |-> Undefined, role |-> Undefined,
   partnerId |-> Undefined, firstName |-> Undefined, lastName |-> Undefined,
   partnerName |-> Undefined]

\* the response: sent counts res.json / res.redirect calls, status 0 is "nothing sent"
NoRes ==
  [sent |-> 0, status |-> 0, error |-> "", rows |-> <<>>, total |-> 0,
   hasDuplicates |-> FALSE, token |-> NoPayload]

NoInput ==
  [email |-> Undefined, password |-> Undefined, sub |-> Undefined,
   given_name |-> Undefined, family_name |-> Undefined,
   companyName |-> Undefined, domain |-> Undefined,
   status |-> Undefined, partner |-> Undefined, limit |-> 0]

IdleReq ==
  [h |-> "idle", mw |-> "none", pc |-> "idle", method |-> "", path |-> <<>>,
   hdr |-> authHeader("none", NoPayload), decoded |-> NoPayload,
   userRow |-> <<>>, isAdmin |-> FALSE, usersOk |-> TRUE, adminsOk |-> TRUE,
   user |-> NoUser, nextCalls |-> 0, res |-> NoRes, in |-> NoInput]

\* res.status(code).json({error: ...})
sendError(rq, code, error) ==
  [rq EXCEPT !.pc = "done",
             !.res = [NoRes EXCEPT !.sent = rq.res.sent + 1, !.status = code, !.error = error]]

\* createDeal-style row: the optional trailing columns are blank
dealRow(id, status, company, domain, submitter) ==
  storedRow(<<id, status, T_0, company, domain, S_ExternalPartner, N_Al, submitter,
              Undefined, Undefined, Undefined, Undefined, Undefined, Undefined, Undefined,
              EmptyString, EmptyString, EmptyString>>)

UsersInit == { <<UsersHeader>> }

\* the Admins sheet as seeded by hand: never written, or holding rows typed in any case
AdminsEmpty == <<>>

AdminsMixedCase == <<AdminsHeader, <<E_ALICE, S_system, T_0, S_active>>>>

AdminsNoneActive ==
  <<AdminsHeader, <<E_bob, S_system, T_0, V_inactive>>, <<EmptyString, S_system, T_0, S_active>>>>

AdminsInit == {AdminsEmpty, AdminsMixedCase, AdminsNoneActive}

DealsFull ==
  <<DealsHeader,
    dealRow(D_1, S_submitted, C_Acme, W_acme_com, E_bob),
    dealRow(D_2, S_submitted, C_Zeta, W_zeta_io, E_alice),
    dealRow(D_3, S_rejected, C_acme, W_acme_com, E_ALICE)>>

DealsInit == { <<DealsHeader>>, DealsFull }

Init ==
  /\ sheets \in {[Users |-> u, Admins |-> a, Deals |-> d] :
                   u \in UsersInit, a \in AdminsInit, d \in DealsInit}
  /\ issued = {}
  /\ clock = 0
  /\ service = ReadyService
  /\ req = [r \in Slots |-> IdleReq]

Free(r) == req[r].pc \in {"idle", "done"}

\* the identities a well-formed but unsigned token may claim
ForgedPayloads ==
  { [id |-> ID_alice, email |-> E_alice, role |-> S_admin, partnerId |-> S_DaxaInternal, iat |-> 0] }

Headers ==
  {authHeader("none", NoPayload), authHeader("bare", NoPayload), authHeader("malformed", NoPayload)}
    \cup {authHeader("forged", p) : p \in ForgedPayloads}
    \cup {authHeader("signed", p) : p \in issued}

(* ---------------------------------------------------------------------- *)
(* Time and the store's own operations                                     *)
(* ---------------------------------------------------------------------- *)
\* a token's lifetime passes
Tick ==
  /\ clock + TokenTTL <= MaxClock
  /\ clock' = clock + TokenTTL
  /\ UNCHANGED <<sheets, issued, req, service>>

\* appendToSheet leaving out a row whose second cell the sheet already holds
appendToSheet_unlessPresent(grid, values) ==
  IF \E i \in 2..Len(grid) : At(grid[i], 2) = At(storedRow(values), 2)
    THEN grid
    ELSE Append(grid, storedRow(values))

\* the grid after appendToSheet(sheetName, values)
appendToSheet(grid, values) == Append(grid, storedRow(values))

\* updateRow(sheetName, rowIndex, values): overwrites row rowIndex (1-based, header is 1).
\* Used here for a Users row whose status is changed.
updateRow ==
  \E rowIndex \in 2..Min(Len(sheets["Users"]), MaxEditedRow), status \in {S_active, V_inactive} :
    LET old == sheets["Users"][rowIndex]
        values == [old EXCEPT ![indexOf(UsersHeader, S_status)] = status]
    IN /\ Len(old) >= indexOf(UsersHeader, S_status)
       /\ values # old
       /\ sheets' = [sheets EXCEPT !["Users"][rowIndex] = storedRow(values)]
       /\ UNCHANGED <<issued, clock, req, service>>

\* deleteRow(sheetName, rowIndex): removes row rowIndex, the rows below move up.
\* Used here for a row of the Users sheet.
deleteRow ==
  \E rowIndex \in 2..Min(Len(sheets["Users"]), MaxEditedRow) :
    /\ sheets' = [sheets EXCEPT !["Users"] =
                    SubSeq(@, 1, rowIndex - 1) \o SubSeq(@, rowIndex + 1, Len(@))]
    /\ UNCHANGED <<issued, clock, req, service>>

(* ---------------------------------------------------------------------- *)
(* Login flows: authService.googleLogin and POST /api/v1/auth/email-login  *)
(* ---------------------------------------------------------------------- *)
\* the Google profiles the identity provider may hand over
Profiles ==
  { [NoInput EXCEPT !.sub = ID_alice, !.email = E_alice, !.given_name = N_Al],
    [NoInput EXCEPT !.sub = ID_bob, !.email = E_bob, !.given_name = N_Bo, !.family_name = N_Bo],
    [NoInput EXCEPT !.sub = ID_bob] }

\* the {email, password} bodies posted to /email-login
Credentials ==
  { [NoInput EXCEPT !.email = S_adminAtDaxa, !.password = S_admin123],
    [NoInput EXCEPT !.email = S_adminAtDaxa, !.password = EmptyString],
    [NoInput EXCEPT !.email = E_alice, !.password = S_admin123] }

testCredentials == [e \in {S_adminAtDaxa} |-> S_admin123]

\* the row googleLogin appends for a profile
googleUserData(profile) ==
  <<profile.sub, profile.email,
    IF Truthy(profile.given_name) THEN profile.given_name ELSE <<"U", "n", "k", "n", "o", "w", "n">>,
    IF Truthy(profile.family_name) THEN profile.family_name ELSE <<"U", "s", "e", "r">>,
    getPartnerCompanyFromEmail(profile.email), S_user, S_active, getCurrentTimestamp>>

\* the row /email-login appends
testAdminUserData(email) ==
  <<<<"t", "e", "s", "t", "-", "a", "d", "m", "i", "n", "-">> \o getCurrentTimestamp, email, <<"T", "e", "s", "t">>, <<"A", "d", "m", "i", "n">>, S_DaxaInternal,
    S_admin, S_active, getCurrentTimestamp>>

\* jwt.sign and the answer of a login whose user row object is `user`
loginSuccess(rq, user, now) ==
  [rq EXCEPT !.pc = "done",
             !.res = [NoRes EXCEPT !.sent = 1, !.status = 200, !.token = tokenPayload(user, now)]]

\* a login that threw: googleLogin rethrows, /email-login answers 500
loginFailure(rq) ==
  sendError(rq, 500, "Authentication failed")

\* googleLogin up to its first await
googleLogin(r) ==
  /\ Free(r)
  /\ clock <= LoginsUntil
  /\ \E profile \in Profiles :
       LET rq == [IdleReq EXCEPT !.h = "googleLogin", !.in = profile]
       IN req' = [req EXCEPT ![r] =
                    IF ~Truthy(profile.email) THEN loginFailure(rq)
                    ELSE [rq EXCEPT !.pc = "findUser"]]
  /\ UNCHANGED <<sheets, issued, clock, service>>

\* POST /email-login up to its first await
emailLogin(r) ==
  /\ Free(r)
  /\ clock <= LoginsUntil
  /\ \E body \in Credentials :
       LET rq == [IdleReq EXCEPT !.h = "emailLogin", !.method = "POST", !.in = body]
           known == body.email \in DOMAIN testCredentials
       IN req' = [req EXCEPT ![r] =
                    IF ~known \/ testCredentials[body.email] # body.password
                      THEN sendError(rq, 401, "Invalid credentials")
                      ELSE [rq EXCEPT !.pc = "findUser"]]
  /\ UNCHANGED <<sheets, issued, clock, service>>

\* let user = await findRowByValue('Users', 'email', email)
login_findUser(r) ==
  /\ req[r].h \in {"googleLogin", "emailLogin"}
  /\ req[r].pc = "findUser"
  /\ \E reachable \in BOOLEAN :
       LET rq == req[r]
           found == findRowByValue(getSheetData(sheets["Users"], reachable), S_email, rq.in.email)
       IN /\ req' = [req EXCEPT ![r] =
                      CASE found.t = "throw" -> loginFailure(rq)
                        [] found.t = "row" -> loginSuccess(rq, found.row, clock)
                        [] found.t = "null" -> [rq EXCEPT !.pc = "append"]]
          /\ issued' = IF found.t = "row" THEN issued \cup {tokenPayload(found.row, clock)} ELSE issued
  /\ UNCHANGED <<sheets, clock, service>>

\* await appendToSheet('Users', userData)
login_append(r) ==
  /\ req[r].h \in {"googleLogin", "emailLogin"}
  /\ req[r].pc = "append"
  /\ Len(sheets["Users"]) < MaxRows
  /\ \E reachable \in BOOLEAN :
       LET rq == req[r]
           userData == IF rq.h = "googleLogin" THEN googleUserData(rq.in)
                       ELSE testAdminUserData(rq.in.email)
       IN IF reachable
            THEN /\ sheets' = [sheets EXCEPT !["Users"] = appendToSheet(@, userData)]
                 /\ req' = [req EXCEPT ![r].pc = "refetch"]
            ELSE /\ req' = [req EXCEPT ![r] = loginFailure(rq)]
                 /\ UNCHANGED sheets
  /\ UNCHANGED <<issued, clock, service>>

\* user = await findRowByValue('Users', 'email', email), then jwt.sign
login_refetch(r) ==
  /\ req[r].h \in {"googleLogin", "emailLogin"}
  /\ req[r].pc = "refetch"
  /\ \E reachable \in BOOLEAN :
       LET rq == req[r]
           found == findRowByValue(getSheetData(sheets["Users"], reachable), S_email, rq.in.email)
       IN /\ req' = [req EXCEPT ![r] =
                      IF found.t = "row" THEN loginSuccess(rq, found.row, clock) ELSE loginFailure(rq)]
          /\ issued' = IF found.t = "row" THEN issued \cup {tokenPayload(found.row, clock)} ELSE issued
  /\ UNCHANGED <<sheets, clock, service>>

(* ---------------------------------------------------------------------- *)
(* Routing: the routes of routes/deals.js and of the admin router, in      *)
(* registration order; Express serves a request by the first route whose   *)
(* method and path pattern match                                           *)
(* ---------------------------------------------------------------------- *)
\* a path segment that is a route parameter (':id')
Param == <<":">>

DealsRoutes ==
  << [method |-> "POST", pattern |-> <<>>,                    mw |-> "authenticateToken", h |-> "createDeal"],
     [method |-> "GET",  pattern |-> <<>>,                    mw |-> "authenticateToken", h |-> "getDeals"],
     [method |-> "GET",  pattern |-> <<Param>>,               mw |-> "authenticateToken", h |-> "getDealById"],
     [method |-> "POST", pattern |-> <<S_check_duplicate>>,   mw |-> "optionalAuth",      h |-> "checkDuplicate"],
     [method |-> "GET",  pattern |-> <<S_stats, S_summary>>,  mw |-> "authenticateToken", h |-> "statsSummary"],
     [method |-> "PUT",  pattern |-> <<Param, S_status>>,     mw |-> "authenticateToken", h |-> "updateStatus"],
     [method |-> "GET",  pattern |-> <<S_my_deals>>,          mw |-> "authenticateToken", h |-> "myDeals"] >>

AdminRoutes ==
  << [method |-> "GET",  pattern |-> <<S_profile, S_deals>>,  mw |-> "authenticateToken", h |-> "profileDeals"],
     [method |-> "GET",  pattern |-> << <<"p", "e", "n", "d", "i", "n", "g", "-", "d", "e", "a", "l", "s">> >>,
                                                              mw |-> "authenticateToken", h |-> "pendingDeals"],
     [method |-> "POST", pattern |-> <<S_deals, Param, <<"a", "p", "p", "r", "o", "v", "e">>>>,
                                                              mw |-> "authenticateToken", h |-> "approve"],
     [method |-> "POST", pattern |-> <<S_deals, Param, <<"r", "e", "j", "e", "c", "t">>>>,
                                                              mw |-> "authenticateToken", h |-> "reject"],
     [method |-> "POST", pattern |-> <<S_add>>,               mw |-> "authenticateToken", h |-> "adminAdd"],
     [method |-> "GET",  pattern |-> << <<"l", "i", "s", "t">> >>,
                                                              mw |-> "authenticateToken", h |-> "adminList"],
     [method |-> "POST", pattern |-> << <<"r", "e", "m", "o", "v", "e">> >>,
                                                              mw |-> "authenticateToken", h |-> "adminRemove"] >>

matches(route, method, path) ==
  /\ route.method = method
  /\ Len(route.pattern) = Len(path)
  /\ \A k \in DOMAIN path : route.pattern[k] = Param \/ route.pattern[k] = path[k]

\* the first matching route of a router (the requests of the model all match one)
dispatch(routes, method, path) ==
  routes[CHOOSE k \in DOMAIN routes :
           /\ matches(routes[k], method, path)
           /\ \A j \in 1..(k - 1) : ~matches(routes[j], method, path)]

\* the requests clients send (method and path below the router's mount point):
\* to the deal-reading endpoints ...
DealRequests ==
  { [routes |-> DealsRoutes, method |-> "GET",  path |-> <<>>],
    [routes |-> DealsRoutes, method |-> "GET",  path |-> <<D_2>>],
    [routes |-> DealsRoutes, method |-> "GET",  path |-> <<D_3>>],
    [routes |-> DealsRoutes, method |-> "GET",  path |-> <<S_my_deals>>],
    [routes |-> DealsRoutes, method |-> "POST", path |-> <<S_check_duplicate>>],
    [routes |-> DealsRoutes, method |-> "GET",  path |-> <<S_stats, S_summary>>],
    [routes |-> AdminRoutes, method |-> "GET",  path |-> <<S_profile, S_deals>>] }

\* ... and to the endpoint that extends the allowlist
AuthRequests ==
  { [routes |-> AdminRoutes, method |-> "POST", path |-> <<S_add>>] }

Requests == DealRequests \cup AuthRequests

(* ---------------------------------------------------------------------- *)
(* middleware/auth.js: authenticateToken and optionalAuth                  *)
(* ---------------------------------------------------------------------- *)
\* authenticateToken up to its first await
authenticateToken(r, sent) ==
  /\ Free(r)
  /\ \E q \in sent, hdr \in Headers :
       LET route == dispatch(q.routes, q.method, q.path)
           rq == [IdleReq EXCEPT !.h = route.h, !.mw = route.mw, !.method = q.method,
                                 !.path = q.path, !.hdr = hdr]
           v == jwtVerify(hdr, clock)
       IN /\ route.mw = "authenticateToken"
          /\ req' = [req EXCEPT ![r] =
                      IF ~hasToken(hdr) THEN sendError(rq, 401, "Access token required")
                      ELSE IF v.t = "JsonWebTokenError" THEN sendError(rq, 401, "Invalid token")
                      ELSE IF v.t = "TokenExpiredError" THEN sendError(rq, 401, "Token expired")
                      ELSE [rq EXCEPT !.pc = "findUser", !.decoded = v.decoded]]
  /\ UNCHANGED <<sheets, issued, clock, service>>

\* the check on the row without its status
invalidOrInactive_rowOnly(found) == found.t = "null"

\* !user || user.status !== 'active'
invalidOrInactive(found) == found.t = "null" \/ Prop(found.row, S_status) # S_active

\* const user = await findRowByValue('Users', 'id', decoded.id), and the check on it
authenticateToken_findUser(r) ==
  /\ req[r].mw = "authenticateToken"
  /\ req[r].pc = "findUser"
  /\ \E reachable \in BOOLEAN :
       LET rq == [req[r] EXCEPT !.usersOk = reachable]
           found == findRowByValue(getSheetData(sheets["Users"], reachable), S_id, rq.decoded.id)
       IN req' = [req EXCEPT ![r] =
                    IF found.t = "throw" THEN sendError(rq, 500, "Authentication error")
                    ELSE IF invalidOrInactive(found)
                      THEN sendError(rq, 401, "Invalid or inactive user")
                    ELSE [rq EXCEPT !.pc = "checkAdmin", !.userRow = found.row]]
  /\ UNCHANGED <<sheets, issued, clock, service>>

\* the role as the token claims it
userRole_fromToken(isAdmin, user, decoded) == decoded.role

\* the role as the User row stores it
userRole_stored(isAdmin, user, decoded) == Prop(user, S_role)

\* the role given to req.user
userRole(isAdmin, user, decoded) == IF isAdmin THEN S_admin ELSE Prop(user, S_role)

\* const isAdmin = await checkAdminStatus(user.email); req.user = {...}; next()
authenticateToken_checkAdmin(r) ==
  /\ req[r].mw = "authenticateToken"
  /\ req[r].pc = "checkAdmin"
  /\ \E reachable \in BOOLEAN :
       LET rq == req[r]
           user == rq.userRow
           isAdmin == checkAdminStatus(getSheetData(sheets["Admins"], reachable), Prop(user, S_email))
       IN req' = [req EXCEPT ![r] =
                    [rq EXCEPT !.pc = "handler", !.isAdmin = isAdmin, !.adminsOk = reachable,
                               !.nextCalls = rq.nextCalls + 1,
                               !.user = [isSet |-> TRUE,
                                         id |-> Prop(user, S_id),
                                         email |-> Prop(user, S_email),
                                         role |-> userRole(isAdmin, user, rq.decoded),
                                         partnerId |-> Prop(user, S_partner_company),
                                         firstName |-> Prop(user, S_first_name),
                                         lastName |-> Prop(user, S_last_name),
                                         partnerName |-> Prop(user, S_partner_company)]]]
  /\ UNCHANGED <<sheets, issued, clock, service>>

\* optionalAuth up to its first await
optionalAuth(r, sent) ==
  /\ Free(r)
  /\ \E q \in sent, hdr \in Headers :
       LET route == dispatch(q.routes, q.method, q.path)
           rq == [IdleReq EXCEPT !.h = route.h, !.mw = route.mw, !.method = q.method,
                                 !.path = q.path, !.hdr = hdr]
           v == jwtVerify(hdr, clock)
       IN /\ route.mw = "optionalAuth"
          /\ req' = [req EXCEPT ![r] =
                      IF ~hasToken(hdr) \/ v.t # "ok"
                        THEN [rq EXCEPT !.pc = "handler", !.nextCalls = rq.nextCalls + 1]
                        ELSE [rq EXCEPT !.pc = "findUser", !.decoded = v.decoded]]
  /\ UNCHANGED <<sheets, issued, clock, service>>

\* the check on the row without its status
activeUser_anyStatus(found) == found.t = "row"

\* user && user.status === 'active'
activeUser(found) == found.t = "row" /\ Prop(found.row, S_status) = S_active

\* const user = await findRowByValue('Users', 'id', decoded.id)
optionalAuth_findUser(r) ==
  /\ req[r].mw = "optionalAuth"
  /\ req[r].pc = "findUser"
  /\ \E reachable \in BOOLEAN :
       LET rq == [req[r] EXCEPT !.usersOk = reachable]
           found == findRowByValue(getSheetData(sheets["Users"], reachable), S_id, rq.decoded.id)
       IN req' = [req EXCEPT ![r] =
                    IF activeUser(found)
                      THEN [rq EXCEPT !.pc = "checkAdmin", !.userRow = found.row]
                      ELSE [rq EXCEPT !.pc = "handler", !.nextCalls = rq.nextCalls + 1]]
  /\ UNCHANGED <<sheets, issued, clock, service>>

\* const isAdmin = await checkAdminStatus(user.email); req.user = {...}; next()
optionalAuth_checkAdmin(r) ==
  /\ req[r].mw = "optionalAuth"
  /\ req[r].pc = "checkAdmin"
  /\ \E reachable \in BOOLEAN :
       LET rq == req[r]
           user == rq.userRow
           isAdmin == checkAdminStatus(getSheetData(sheets["Admins"], reachable), Prop(user, S_email))
       IN req' = [req EXCEPT ![r] =
                    [rq EXCEPT !.pc = "handler", !.isAdmin = isAdmin, !.adminsOk = reachable,
                               !.nextCalls = rq.nextCalls + 1,
                               !.user = [isSet |-> TRUE,
                                         id |-> Prop(user, S_id),
                                         email |-> Prop(user, S_email),
                                         role |-> userRole(isAdmin, user, rq.decoded),
                                         partnerId |-> Prop(user, <<"p","a","r","t","n","e","r","_","i","d">>),
                                         firstName |-> Prop(user, S_first_name),
                                         lastName |-> Prop(user, S_last_name),
                                         partnerName |-> Prop(user, S_partner_company)]]]
  /\ UNCHANGED <<sheets, issued, clock, service>>

(* ---------------------------------------------------------------------- *)
(* Deal handlers: the deal controller, routes/deals.js, GET /profile/deals *)
(* ---------------------------------------------------------------------- *)
\* limit = 50 when the query has none
DefaultLimit == 50

\* the values of ?limit= that clients send (after parseInt)
Limits == {DefaultLimit, 1, 2}

\* the ownership test comparing the emails in lower case
canViewDeal_anyCase(user, submitter_email) ==
  user.role = S_admin \/ toLowerCase(submitter_email) = toLowerCase(user.email)

\* req.user?.role === 'admin' || deal.submitter_email === req.user?.email
canViewDeal(user, submitter_email) ==
  user.role = S_admin \/ submitter_email = user.email

\* res.json(...) with a list of rows
sendRows(rq, rows) ==
  [rq EXCEPT !.pc = "done",
             !.res = [NoRes EXCEPT !.sent = rq.res.sent + 1, !.status = 200,
                                   !.rows = rows, !.total = Len(rows)]]

\* the rows of the grid that the loop of getDeals visits: indices 1 .. min(length, limit + 1) - 1
scannedRows(deals, limit) == 2..Min(Len(deals), limit + 1)

\* dealRecords of getDeals for a grid with at least one data row
getDealsRecords(deals, user, status, partner, limit) ==
  LET headers == deals[1]
      keep(i) ==
        LET deal == rowObject(headers, deals[i])
        IN /\ i \in scannedRows(deals, limit)
           /\ canViewDeal(user, Prop(deal, S_submitter_email))
           /\ (Truthy(status) => Prop(deal, S_status) = status)
           /\ (Truthy(partner) => Prop(deal, S_partner_company) = partner)
      idx == SelectSeq([i \in 1..(Len(deals) - 1) |-> i + 1], keep)
  IN [k \in DOMAIN idx |-> rowObject(headers, deals[idx[k]])]

\* GET /api/v1/deals
getDeals(r) ==
  /\ req[r].h = "getDeals"
  /\ req[r].pc = "handler"
  /\ \E reachable \in BOOLEAN, status \in {Undefined, S_submitted}, limit \in Limits :
       LET rq == [req[r] EXCEPT !.in.status = status, !.in.limit = limit]
           rd == getSheetData(sheets["Deals"], reachable)
       IN req' = [req EXCEPT ![r] =
                    IF ~rd.ok THEN sendError(rq, 500, "Failed to retrieve deals")
                    ELSE IF Len(rd.data) <= 1 THEN sendRows(rq, <<>>)
                    ELSE sendRows(rq, getDealsRecords(rd.data, rq.user, status, Undefined, limit))]
  /\ UNCHANGED <<sheets, issued, clock, service>>

\* GET /api/v1/deals/:id
getDealById(r) ==
  /\ req[r].h = "getDealById"
  /\ req[r].pc = "handler"
  /\ \E reachable \in BOOLEAN :
       LET rq == req[r]
           id == rq.path[1]
           found == findRowByValue(getSheetData(sheets["Deals"], reachable), S_id, id)
       IN req' = [req EXCEPT ![r] =
                    IF found.t = "throw" THEN sendError(rq, 500, "Failed to retrieve deal")
                    ELSE IF found.t = "null" THEN sendError(rq, 404, "Deal not found")
                    ELSE IF ~canViewDeal(rq.user, Prop(found.row, S_submitter_email))
                      THEN sendError(rq, 403, "Permission denied")
                    ELSE sendRows(rq, <<found.row>>)]
  /\ UNCHANGED <<sheets, issued, clock, service>>

\* checkDuplicateDeals on the result of its getSheetData('Deals') call: the duplicates
checkDuplicateDeals(rd, companyName, domain) ==
  IF ~rd.ok \/ Len(rd.data) <= 1 THEN <<>>
  ELSE LET deals == rd.data
           headers == deals[1]
           companyIndex == indexOf(headers, S_company_name)
           domainIndex == indexOf(headers, S_domain)
           statusIndex == indexOf(headers, S_status)
           isDup(i) ==
             LET row == deals[i]
                 existingCompany == OrEmpty(At(row, companyIndex))
                 existingDomain == OrEmpty(At(row, domainIndex))
                 existingStatus == OrEmpty(At(row, statusIndex))
             IN /\ existingStatus # S_rejected
                /\ \/ toLowerCase(existingCompany) = toLowerCase(companyName)
                   \/ toLowerCase(existingDomain) = toLowerCase(domain)
           idx == SelectSeq([i \in 1..(Len(deals) - 1) |-> i + 1], isDup)
       IN [k \in DOMAIN idx |-> rowObject(headers, deals[idx[k]])]

\* the {companyName, domain} bodies posted to /check-duplicate
DuplicateQueries ==
  { [NoInput EXCEPT !.companyName = C_acme, !.domain = W_zeta_io],
    [NoInput EXCEPT !.companyName = C_Zeta, !.domain = EmptyString],
    [NoInput EXCEPT !.companyName = D_1, !.domain = D_1] }

\* POST /api/v1/deals/check-duplicate
checkDuplicate(r) ==
  /\ req[r].h = "checkDuplicate"
  /\ req[r].pc = "handler"
  /\ \E reachable \in BOOLEAN, body \in DuplicateQueries :
       LET rq == [req[r] EXCEPT !.in = body]
           duplicates == checkDuplicateDeals(getSheetData(sheets["Deals"], reachable),
                                             body.companyName, body.domain)
       IN req' = [req EXCEPT ![r] =
                    IF ~Truthy(body.companyName) \/ ~Truthy(body.domain)
                      THEN sendError(rq, 400, "Company name and domain are required")
                      ELSE [sendRows(rq, duplicates) EXCEPT !.res.hasDuplicates = Len(duplicates) > 0]]
  /\ UNCHANGED <<sheets, issued, clock, service>>

\* the data rows counted by GET /stats/summary (stats.total counts them)
statsCounted(deals, user) ==
  LET headers == deals[1]
      submitterEmailIndex == indexOf(headers, S_submitter_email)
      counted(i) == canViewDeal(user, OrEmpty(At(deals[i], submitterEmailIndex)))
      idx == SelectSeq([i \in 1..(Len(deals) - 1) |-> i + 1], counted)
  IN [k \in DOMAIN idx |-> rowObject(headers, deals[idx[k]])]

\* GET /api/v1/deals/stats/summary
statsSummary(r) ==
  /\ req[r].h = "statsSummary"
  /\ req[r].pc = "handler"
  /\ \E reachable \in BOOLEAN :
       LET rq == req[r]
           rd == getSheetData(sheets["Deals"], reachable)
       IN req' = [req EXCEPT ![r] =
                    IF ~rd.ok THEN sendError(rq, 500, "Failed to get deal statistics")
                    ELSE IF Len(rd.data) < 2 THEN sendRows(rq, <<>>)
                    ELSE sendRows(rq, statsCounted(rd.data, rq.user))]
  /\ UNCHANGED <<sheets, issued, clock, service>>

\* userDeals of GET /profile/deals
profileUserDeals(deals, user) ==
  LET headers == deals[1]
      own(i) == Prop(rowObject(headers, deals[i]), S_submitter_email) = user.email
      idx == SelectSeq([i \in 1..(Len(deals) - 1) |-> i + 1], own)
  IN [k \in DOMAIN idx |-> rowObject(headers, deals[idx[k]])]

\* GET /api/v1/admin/profile/deals
profileDeals(r) ==
  /\ req[r].h = "profileDeals"
  /\ req[r].pc = "handler"
  /\ \E reachable \in BOOLEAN :
       LET rq == req[r]
           rd == getSheetData(sheets["Deals"], reachable)
       IN req' = [req EXCEPT ![r] =
                    IF ~rd.ok THEN sendError(rq, 500, "Failed to load user deals")
                    ELSE IF Len(rd.data) <= 1 THEN sendRows(rq, <<>>)
                    ELSE sendRows(rq, profileUserDeals(rd.data, rq.user))]
  /\ UNCHANGED <<sheets, issued, clock, service>>

accessDenied_unlessIdentified(user) == ~user.isSet

\* req.user?.role !== 'admin'
accessDenied(user) == user.role # S_admin


(* ---------------------------------------------------------------------- *)
(* Admin router: POST /api/v1/admin/add                                    *)
(* ---------------------------------------------------------------------- *)
\* the {email} bodies posted to /admin/add
AddBodies ==
  { [NoInput EXCEPT !.email = Undefined],
    [NoInput EXCEPT !.email = <<" ">>],
    [NoInput EXCEPT !.email = <<" ">> \o E_ALICE \o <<" ">>] }

\* some data row of adminsData already holds adminEmail (compared in lower case)
adminAlreadyExists(adminsData, adminEmail) ==
  LET headers == adminsData[1]
      emailIndex == indexOf(headers, S_email)
  IN \E i \in 2..Len(adminsData) :
       LET existingEmail == At(adminsData[i], emailIndex)
       IN Truthy(existingEmail) /\ toLowerCase(existingEmail) = adminEmail

\* POST /admin/add up to the end of its read of the Admins sheet
adminAdd(r) ==
  /\ req[r].h = "adminAdd"
  /\ req[r].pc = "handler"
  /\ \E reachable \in BOOLEAN, body \in AddBodies :
       LET rq == [req[r] EXCEPT !.in = body]
           email == body.email
           adminEmail == toLowerCase(trim(email))
           rd == getSheetData(sheets["Admins"], reachable)
           adminsData == rd.data
       IN req' = [req EXCEPT ![r] =
                    IF accessDenied(rq.user) THEN sendError(rq, 403, "Access denied")
                    ELSE IF ~Truthy(email) \/ ~Truthy(trim(email))
                      THEN sendError(rq, 400, "Email required")
                    ELSE IF Len(adminsData) = 0 THEN [rq EXCEPT !.pc = "addHeader"]
                    ELSE IF adminAlreadyExists(adminsData, adminEmail)
                      THEN sendError(rq, 409, "Admin already exists")
                    ELSE [rq EXCEPT !.pc = "addRow"]]
  /\ UNCHANGED <<sheets, issued, clock, service>>

\* await appendToSheet('Admins', headers); adminsData = [headers]
adminAdd_header(r) ==
  /\ req[r].h = "adminAdd"
  /\ req[r].pc = "addHeader"
  /\ Len(sheets["Admins"]) < MaxRows
  /\ \E reachable \in BOOLEAN :
       IF reachable
         THEN /\ sheets' = [sheets EXCEPT !["Admins"] = appendToSheet(@, AdminsHeader)]
              /\ req' = [req EXCEPT ![r].pc = "addRow"]
         ELSE /\ req' = [req EXCEPT ![r] = sendError(req[r], 500, "Failed to add admin")]
              /\ UNCHANGED sheets
  /\ UNCHANGED <<issued, clock, service>>

\* await appendToSheet('Admins', newAdminData); res.json(...)
adminAdd_append(r) ==
  /\ req[r].h = "adminAdd"
  /\ req[r].pc = "addRow"
  /\ Len(sheets["Admins"]) < MaxRows
  /\ \E reachable \in BOOLEAN :
       LET rq == req[r]
           adminEmail == toLowerCase(trim(rq.in.email))
           newAdminData == <<adminEmail,
                             IF Truthy(rq.user.email) THEN rq.user.email ELSE S_system,
                             getCurrentTimestamp, S_active>>
       IN IF reachable
            THEN /\ sheets' = [sheets EXCEPT !["Admins"] = appendToSheet(@, newAdminData)]
                 /\ req' = [req EXCEPT ![r] =
                              [rq EXCEPT !.pc = "done",
                                         !.res = [NoRes EXCEPT !.sent = 1, !.status = 200]]]
            ELSE /\ req' = [req EXCEPT ![r] = sendError(rq, 500, "Failed to add admin")]
                 /\ UNCHANGED sheets
  /\ UNCHANGED <<issued, clock, service>>

(* ---------------------------------------------------------------------- *)
(* The system                                                              *)
(* ---------------------------------------------------------------------- *)
Next ==
  \/ Tick
  \/ updateRow
  \/ deleteRow
  \/ \E r \in Slots : googleLogin(r)
  \/ \E r \in Slots : emailLogin(r)
  \/ \E r \in Slots : login_findUser(r)
  \/ \E r \in Slots : login_append(r)
  \/ \E r \in Slots : login_refetch(r)
  \/ \E r \in Slots : authenticateToken(r, Requests)
  \/ \E r \in Slots : authenticateToken_findUser(r)
  \/ \E r \in Slots : authenticateToken_checkAdmin(r)
  \/ \E r \in Slots : optionalAuth(r, Requests)
  \/ \E r \in Slots : optionalAuth_findUser(r)
  \/ \E r \in Slots : optionalAuth_checkAdmin(r)
  \/ \E r \in Slots : getDeals(r)
  \/ \E r \in Slots : getDealById(r)
  \/ \E r \in Slots : checkDuplicate(r)
  \/ \E r \in Slots : statsSummary(r)
  \/ \E r \in Slots : profileDeals(r)
  \/ \E r \in Slots : adminAdd(r)
  \/ \E r \in Slots : adminAdd_header(r)
  \/ \E r \in Slots : adminAdd_append(r)

Spec == Init /\ [][Next]_vars

(* ---------------------------------------------------------------------- *)
(* The allowlist scenario: logins, token verification, POST /admin/add     *)
(* and rows of the Users sheet being edited, within the lifetime of the    *)
(* tokens and over a fixed Deals sheet                                     *)
(* ---------------------------------------------------------------------- *)
InitAuth ==
  /\ sheets \in {[Users |-> u, Admins |-> a, Deals |-> DealsFull] :
                   u \in UsersInit, a \in {AdminsEmpty, AdminsNoneActive}}
  /\ issued = {}
  /\ clock = 0
  /\ service = ReadyService
  /\ req = [r \in Slots |-> IdleReq]

NextAuth ==
  \/ updateRow
  \/ deleteRow
  \/ \E r \in Slots : googleLogin(r)
  \/ \E r \in Slots : emailLogin(r)
  \/ \E r \in Slots : login_findUser(r)
  \/ \E r \in Slots : login_append(r)
  \/ \E r \in Slots : login_refetch(r)
  \/ \E r \in Slots : authenticateToken(r, AuthRequests)
  \/ \E r \in Slots : authenticateToken_findUser(r)
  \/ \E r \in Slots : authenticateToken_checkAdmin(r)
  \/ \E r \in Slots : adminAdd(r)
  \/ \E r \in Slots : adminAdd_header(r)
  \/ \E r \in Slots : adminAdd_append(r)

SpecAuth == InitAuth /\ [][NextAuth]_vars

(* ---------------------------------------------------------------------- *)
(* The read scenario: the deal-reading endpoints behind authenticateToken  *)
(* and optionalAuth, over sheets that logins and hand edits have filled    *)
(* ---------------------------------------------------------------------- *)
\* rows appended by googleLogin and /email-login; bob's was then deactivated by hand
UsersFilled ==
  <<UsersHeader,
    storedRow(googleUserData([NoInput EXCEPT !.sub = ID_alice, !.email = E_alice, !.given_name = N_Al])),
    storedRow(testAdminUserData(S_adminAtDaxa)),
    storedRow([googleUserData([NoInput EXCEPT !.sub = ID_bob, !.email = E_bob, !.given_name = N_Bo])
                 EXCEPT ![indexOf(UsersHeader, S_status)] = V_inactive])>>

\* carol logged in, then her row was deleted by hand
CarolRow ==
  storedRow(googleUserData([NoInput EXCEPT !.sub = ID_carol, !.email = E_carol]))

\* the tokens of these four users, issued at hour 0
TokensFilled ==
  {tokenPayload(rowObject(UsersHeader, UsersFilled[i]), 0) : i \in 2..Len(UsersFilled)}
    \cup {tokenPayload(rowObject(UsersHeader, CarolRow), 0)}

InitDeals ==
  /\ sheets \in {[Users |-> UsersFilled, Admins |-> a, Deals |-> d] :
                   a \in AdminsInit, d \in DealsInit}
  /\ issued = TokensFilled
  /\ clock = 0
  /\ service = ReadyService
  /\ req = [r \in Slots |-> IdleReq]

NextDeals ==
  \/ Tick
  \/ \E r \in Slots : authenticateToken(r, DealRequests)
  \/ \E r \in Slots : authenticateToken_findUser(r)
  \/ \E r \in Slots : authenticateToken_checkAdmin(r)
  \/ \E r \in Slots : optionalAuth(r, DealRequests)
  \/ \E r \in Slots : optionalAuth_findUser(r)
  \/ \E r \in Slots : optionalAuth_checkAdmin(r)
  \/ \E r \in Slots : getDeals(r)
  \/ \E r \in Slots : getDealById(r)
  \/ \E r \in Slots : checkDuplicate(r)
  \/ \E r \in Slots : statsSummary(r)
  \/ \E r \in Slots : profileDeals(r)

SpecDeals == InitDeals /\ [][NextDeals]_vars

(* ---------------------------------------------------------------------- *)
(* The allowlist lookup on its own: checkAdminStatus called for the email  *)
(* of a User row, over the Admins sheets that hand edits can produce       *)
(* ---------------------------------------------------------------------- *)
\* data rows of the Admins sheets tried
MaxAdminRows == 2

\* status cells typed by hand
AdminStatuses == {S_active, V_inactive, <<"A", "c", "t", "i", "v", "e">>}

\* an Admins row: written in full, or left with its email cell only
AdminRows ==
  {<<e, S_system, T_0, s>> : e \in {E_alice, E_ALICE, E_bob, EmptyString}, s \in AdminStatuses}
    \cup {<<e>> : e \in {E_alice, E_ALICE}}

AdminsGrids ==
  {AdminsEmpty} \cup
  UNION {{<<AdminsHeader>> \o rows : rows \in [1..n -> AdminRows]} : n \in 0..MaxAdminRows}

\* the emails of the User rows on whose behalf the lookup runs
CallerEmails == {E_alice, E_ALICE, E_bob, E_carol}

\* const isAdmin = await checkAdminStatus(email)
checkAdmin(r) ==
  /\ Free(r)
  /\ \E email \in CallerEmails, reachable \in BOOLEAN :
       req' = [req EXCEPT ![r] =
                 [IdleReq EXCEPT !.h = "checkAdminStatus", !.pc = "done", !.in.email = email,
                                 !.adminsOk = reachable,
                                 !.isAdmin = checkAdminStatus(getSheetData(sheets["Admins"], reachable),
                                                              email)]]
  /\ UNCHANGED <<sheets, issued, clock, service>>

InitAdmins ==
  /\ sheets \in {[Users |-> <<UsersHeader>>, Admins |-> a, Deals |-> <<DealsHeader>>] :
                   a \in AdminsGrids}
  /\ issued = {}
  /\ clock = 0
  /\ service = ReadyService
  /\ req = [r \in Slots |-> IdleReq]

NextAdmins == \E r \in Slots : checkAdmin(r)

SpecAdmins == InitAdmins /\ [][NextAdmins]_vars

(* ---------------------------------------------------------------------- *)
(* Properties.  They read the sheets by column position (the layout of     *)
(* UsersHeader, AdminsHeader and DealsHeader), not through the operators   *)
(* that model the code.                                                    *)
(* ---------------------------------------------------------------------- *)
\* the cell in column k of a stored row, blank when the row is shorter
cell(row, k) == IF k \in DOMAIN row THEN row[k] ELSE EmptyString

\* the Admins grid holds a data row with status 'active' whose email is `email` up to letter case
ActiveAdminRow(grid, email) ==
  \E i \in 2..Len(grid) :
    /\ cell(grid[i], 4) = S_active
    /\ toLowerCase(cell(grid[i], 1)) = toLowerCase(email)

\* the index of the first data row of the Users grid whose id is `id`, 0 when there is none
firstUserRow(grid, id) ==
  LET hits == {i \in 2..Len(grid) : cell(grid[i], 1) = id}
  IN IF hits = {} THEN 0 ELSE CHOOSE i \in hits : \A j \in hits : i <= j

\* the Users grid holds a row for `id`, and its status is 'active'
ActiveUserRow(grid, id) ==
  firstUserRow(grid, id) # 0 /\ cell(grid[firstUserRow(grid, id)], 7) = S_active

\* a token that jwt.verify accepts at time `now`: signed by this server and younger than its lifetime
TokenAccepted(hdr, now) ==
  hdr.kind = "signed" /\ hdr.payload \in issued /\ now < hdr.payload.iat + TokenTTL

\* positions of a request with respect to its middleware
Pending(q) == q.nextCalls = 0 /\ q.res.sent = 0 /\ ~q.user.isSet

Identified(q) == q.pc = "handler" /\ q.nextCalls = 1 /\ q.res.sent = 0 /\ q.user.isSet

Anonymous(q) == q.pc = "handler" /\ q.nextCalls = 1 /\ q.res.sent = 0 /\ ~q.user.isSet

Rejected(q) == q.pc = "done" /\ q.nextCalls = 0 /\ q.res.sent = 1 /\ ~q.user.isSet

\* slot r takes a step of middleware mw from position pc
MiddlewareStep(r, mw, pc) == req[r].mw = mw /\ req[r].pc = pc /\ req'[r] # req[r]

\* slot r starts a request that goes through middleware mw
Arrival(r, mw) == Free(r) /\ req'[r] # req[r] /\ req'[r].mw = mw

(* ---------------------------------------------------------------------- *)
(* C1                                                                      *)
(* ---------------------------------------------------------------------- *)
C1_Step(r) ==
  (req[r].mw \in {"authenticateToken", "optionalAuth"} /\ MiddlewareStep(r, req[r].mw, "checkAdmin")) =>
    LET i == firstUserRow(sheets["Users"], req[r].hdr.payload.id)
        row == sheets["Users"][i]
        isAdmin == checkAdminStatus(getSheetData(sheets["Admins"], req'[r].adminsOk), cell(row, 2))
    IN /\ i # 0
       /\ req'[r].user.isSet
       /\ req'[r].user.role = IF isAdmin THEN S_admin ELSE cell(row, 6)

\* C1: whenever authenticateToken or optionalAuth passes a request on with an identity,
\* the identity's role is 'admin' if checkAdminStatus, called in this request for the email
\* of the User row found by the token's id, is true, and the role cell of that row
\* otherwise; neither the token's role claim nor an earlier request's role decides it.
C1_RoleDerivedPerRequest == [][\A r \in Slots : C1_Step(r)]_vars

\* a request was passed on with a role that differs from the one in its token
C1_Witness ==
  \E r \in Slots :
    /\ req[r].mw = "optionalAuth"
    /\ req[r].user.isSet
    /\ req[r].hdr.payload.role = S_user
    /\ req[r].user.role = S_admin

(* ---------------------------------------------------------------------- *)
(* C2                                                                      *)
(* ---------------------------------------------------------------------- *)
C2_Step(r) ==
  ( /\ MiddlewareStep(r, "authenticateToken", "checkAdmin")
    /\ req[r].hdr.payload.role # S_admin
    /\ req'[r].adminsOk
    /\ ActiveAdminRow(sheets["Admins"], req[r].hdr.payload.email) ) =>
    /\ Identified(req'[r])
    /\ req'[r].user.role = S_admin

\* C2: a token whose role claim is not 'admin' (issued to a user who was no admin), presented
\* while the Admins sheet holds an active row for the user's email, is resolved by
\* authenticateToken with role 'admin', the token being the one issued before; this is
\* the resolution of a request whose read of the Admins sheet succeeds.
C2_StaleTokenResolvesAdmin == [][\A r \in Slots : C2_Step(r)]_vars

\* POST /admin/add has appended the row for the user and a later request with the
\* user's token, whose role claim is 'user', went on as admin
C2_Witness ==
  \E r \in Slots :
    /\ req[r].mw = "authenticateToken"
    /\ req[r].user.isSet
    /\ req[r].hdr.payload.role = S_user
    /\ req[r].user.role = S_admin
    /\ \E i \in 2..Len(sheets["Admins"]) :
         /\ cell(sheets["Admins"][i], 1) = req[r].hdr.payload.email
         /\ cell(sheets["Admins"][i], 2) = S_adminAtDaxa

(* ---------------------------------------------------------------------- *)
(* C3                                                                      *)
(* ---------------------------------------------------------------------- *)
C3_Step(r) ==
  (MiddlewareStep(r, "authenticateToken", "checkAdmin") /\ req'[r].adminsOk) =>
    (req'[r].user.role = S_admin <=> ActiveAdminRow(sheets["Admins"], req'[r].user.email))

\* C3: a request (whose read of the Admins sheet succeeds) is resolved with role 'admin'
\* if and only if the Admins sheet holds an active row with the user's email up to
\* letter case, whatever the role cell of the User row.
C3_AdminIffAllowlisted == [][\A r \in Slots : C3_Step(r)]_vars

(* ---------------------------------------------------------------------- *)
(* C4                                                                      *)
(* ---------------------------------------------------------------------- *)
\* the endpoints that read deals on behalf of an identified caller; GET /my-deals is
\* among the requests and is served by the handler the router gives it
DealReaders == {"getDeals", "getDealById", "statsSummary", "myDeals", "profileDeals"}

\* C4: for every caller identified with a role other than 'admin', every deal row that
\* getDeals, getDealById, GET /stats/summary, GET /my-deals or GET /profile/deals returns
\* or counts has a submitter_email equal, character for character, to the caller's email.
C4_NonAdminSeesOwnDealsOnly ==
  \A r \in Slots :
    (req[r].h \in DealReaders /\ req[r].pc = "done" /\ req[r].user.role # S_admin) =>
      /\ req[r].res.total = Len(req[r].res.rows)
      /\ \A k \in DOMAIN req[r].res.rows :
           req[r].res.rows[k][S_submitter_email] = req[r].user.email

\* a non-admin caller got a deal of their own from a sheet that also holds a deal
\* submitted under the same email in another letter case, and deals of others
C4_Witness ==
  \E r \in Slots :
    /\ req[r].h = "getDeals"
    /\ req[r].pc = "done"
    /\ req[r].user.role = S_user
    /\ Len(req[r].res.rows) > 0
    /\ \E i \in 2..Len(sheets["Deals"]) :
         /\ cell(sheets["Deals"][i], 8) # req[r].user.email
         /\ toLowerCase(cell(sheets["Deals"][i], 8)) = toLowerCase(req[r].user.email)

(* ---------------------------------------------------------------------- *)
(* C5                                                                      *)
(* ---------------------------------------------------------------------- *)
\* the indices of the data rows of the Deals grid that `user` may see, in sheet order
visibleIndices(grid, user) ==
  SelectSeq([i \in 1..(Len(grid) - 1) |-> i + 1],
            LAMBDA i : user.role = S_admin \/ cell(grid[i], 8) = user.email)

\* C5: without status or partner filter, getDeals returns, in sheet order, every Deals
\* row for an admin caller and exactly the rows whose submitter_email is the caller's
\* email for a non-admin caller, whenever the rows visible to the caller are no more than
\* the limit, wherever in the sheet they are.
C5_GetDealsReturnsAllVisible ==
  \A r \in Slots :
    ( /\ req[r].h = "getDeals" /\ req[r].pc = "done" /\ req[r].res.status = 200
      /\ req[r].in.status = Undefined /\ req[r].in.partner = Undefined
      /\ Len(sheets["Deals"]) > 1 ) =>
      LET visible == visibleIndices(sheets["Deals"], req[r].user)
      IN Len(visible) <= req[r].in.limit =>
           /\ Len(req[r].res.rows) = Len(visible)
           /\ \A k \in DOMAIN visible :
                req[r].res.rows[k][S_id] = cell(sheets["Deals"][visible[k]], 1)

(* ---------------------------------------------------------------------- *)
(* C6                                                                      *)
(* ---------------------------------------------------------------------- *)
\* C6: a request that carries no identity (no token, or one that optionalAuth does not
\* accept) is never answered with a deal row, POST /check-duplicate included.
C6_AnonymousGetsNoDealRow ==
  \A r \in Slots :
    (req[r].mw \in {"authenticateToken", "optionalAuth"} /\ ~req[r].user.isSet) =>
      req[r].res.rows = <<>>

(* ---------------------------------------------------------------------- *)
(* C7                                                                      *)
(* ---------------------------------------------------------------------- *)
C7_Step(r) ==
  /\ Arrival(r, "authenticateToken") =>
       IF TokenAccepted(req'[r].hdr, clock)
         THEN req'[r].pc = "findUser" /\ Pending(req'[r])
         ELSE Rejected(req'[r]) /\ req'[r].res.status = 401
  /\ MiddlewareStep(r, "authenticateToken", "findUser") =>
       \/ Rejected(req'[r])
       \/ /\ req'[r].pc = "checkAdmin" /\ Pending(req'[r])
          /\ ActiveUserRow(sheets["Users"], req[r].hdr.payload.id)
  /\ MiddlewareStep(r, "authenticateToken", "checkAdmin") => Identified(req'[r])
  /\ MiddlewareStep(r, "authenticateToken", "handler") =>
       req'[r].nextCalls = 1 /\ req'[r].user = req[r].user

\* C7: every run of authenticateToken ends in exactly one of two ways. Identified: next()
\* is called once, with req.user set and no response sent by the middleware, and only for
\* a token that verifies and whose id has a User row with status 'active'. Rejected: one
\* response is sent, next() is never called and req.user stays unset; a missing,
\* malformed, wrongly signed or expired token is always rejected with 401.
C7_OneTerminalOutcome == [][\A r \in Slots : C7_Step(r)]_vars

\* a token that this server signed was rejected with 401 because its lifetime had passed
C7_Witness ==
  \E r \in Slots :
    /\ req[r].mw = "authenticateToken"
    /\ req[r].hdr.kind = "signed"
    /\ Rejected(req[r])
    /\ req[r].res.status = 401
    /\ req[r].res.error = "Token expired"

(* ---------------------------------------------------------------------- *)
(* C8                                                                      *)
(* ---------------------------------------------------------------------- *)
C8_Step(r) ==
  (MiddlewareStep(r, "authenticateToken", "findUser") /\ req'[r].usersOk) =>
    IF ActiveUserRow(sheets["Users"], req[r].hdr.payload.id)
      THEN req'[r].pc = "checkAdmin" /\ Pending(req'[r])
      ELSE /\ Rejected(req'[r])
           /\ req'[r].res.status = 401
           /\ req'[r].res.error = "Invalid or inactive user"

\* C8: in every request authenticateToken looks the User row up again by the token's id
\* and, the Users sheet being read, answers 401 with one and the same body when there is
\* no such row and when its status is not 'active'; so a token issued to an active user
\* is rejected by the first request made after the row's status has changed.
C8_InactiveOrAbsentUserRejected == [][\A r \in Slots : C8_Step(r)]_vars

\* a token of this server was rejected because the row of its user, still in the
\* sheet, no longer has status 'active'
C8_Witness ==
  \E r \in Slots :
    /\ req[r].mw = "authenticateToken"
    /\ Rejected(req[r])
    /\ req[r].res.error = "Invalid or inactive user"
    /\ req[r].hdr.payload \in issued
    /\ firstUserRow(sheets["Users"], req[r].hdr.payload.id) # 0
    /\ cell(sheets["Users"][firstUserRow(sheets["Users"], req[r].hdr.payload.id)], 7) = V_inactive

(* ---------------------------------------------------------------------- *)
(* C9                                                                      *)
(* ---------------------------------------------------------------------- *)
C9_Step(r) ==
  /\ Arrival(r, "optionalAuth") =>
       IF TokenAccepted(req'[r].hdr, clock)
         THEN req'[r].pc = "findUser" /\ Pending(req'[r])
         ELSE Anonymous(req'[r])
  /\ MiddlewareStep(r, "optionalAuth", "findUser") =>
       IF req'[r].usersOk /\ ActiveUserRow(sheets["Users"], req[r].hdr.payload.id)
         THEN req'[r].pc = "checkAdmin" /\ Pending(req'[r])
         ELSE Anonymous(req'[r])
  /\ MiddlewareStep(r, "optionalAuth", "checkAdmin") => Identified(req'[r])
  /\ MiddlewareStep(r, "optionalAuth", "handler") =>
       req'[r].nextCalls = 1 /\ req'[r].user = req[r].user /\ req'[r].res.sent = 1

\* C9: optionalAuth never fails the request: without a token, with an invalid or expired
\* one, for an unknown or inactive user and when the store cannot be read, it calls next()
\* exactly once and sends no response; it sets req.user when the token verifies and the
\* User row of its id has status 'active', and leaves it unset in every other case.
C9_OptionalAuthNeverFails == [][\A r \in Slots : C9_Step(r)]_vars

\* a request with a valid token of a user whose row is not active went on without identity
C9_Witness ==
  \E r \in Slots :
    /\ Anonymous(req[r])
    /\ req[r].mw = "optionalAuth"
    /\ req[r].usersOk
    /\ TokenAccepted(req[r].hdr, clock)
    /\ firstUserRow(sheets["Users"], req[r].hdr.payload.id) # 0

(* ---------------------------------------------------------------------- *)
(* C10                                                                     *)
(* ---------------------------------------------------------------------- *)
\* C10: checkAdminStatus(email), the Admins sheet being read, is true exactly when some
\* data row of the sheet has status 'active' and an email equal to the argument once
\* both are put in lower case; so arguments that differ only in letter case get the same
\* answer, and a row with any other status grants nothing.
C10_ActiveRowUpToCase ==
  \A r \in Slots :
    (req[r].h = "checkAdminStatus" /\ req[r].pc = "done" /\ req[r].adminsOk) =>
      /\ req[r].isAdmin <=> ActiveAdminRow(sheets["Admins"], req[r].in.email)
      /\ \A other \in CallerEmails :
           toLowerCase(other) = toLowerCase(req[r].in.email) =>
             checkAdminStatus(getSheetData(sheets["Admins"], TRUE), other) = req[r].isAdmin

\* the lookup said yes for an email that the sheet holds only in another letter case, in
\* a sheet that also holds that very email on a row that is not active
C10_Witness ==
  \E r \in Slots :
    /\ req[r].h = "checkAdminStatus"
    /\ req[r].pc = "done"
    /\ req[r].isAdmin
    /\ \A i \in 2..Len(sheets["Admins"]) :
         cell(sheets["Admins"][i], 1) = req[r].in.email => cell(sheets["Admins"][i], 4) # S_active
    /\ \E i \in 2..Len(sheets["Admins"]) : cell(sheets["Admins"][i], 1) = req[r].in.email

(* ---------------------------------------------------------------------- *)
(* The login flows alone: several logins over one Users sheet              *)
(* ---------------------------------------------------------------------- *)
NumLogins == 2

\* the Users sheet with its header only, or holding alice's row deactivated by hand
InitLogins ==
  /\ sheets \in {[Users |-> u, Admins |-> AdminsEmpty, Deals |-> <<DealsHeader>>] :
                   u \in { <<UsersHeader>>,
                           <<UsersHeader,
                             storedRow([googleUserData([NoInput EXCEPT !.sub = ID_alice,
                                                                       !.email = E_alice,
                                                                       !.given_name = N_Al])
                                          EXCEPT ![indexOf(UsersHeader, S_status)] = V_inactive])>> }}
  /\ issued = {}
  /\ clock = 0
  /\ service = ReadyService
  /\ req = [r \in 1..NumLogins |-> IdleReq]

\* the logins interleave at every await
NextLogins ==
  \/ \E r \in 1..NumLogins : googleLogin(r)
  \/ \E r \in 1..NumLogins : emailLogin(r)
  \/ \E r \in 1..NumLogins : login_findUser(r)
  \/ \E r \in 1..NumLogins : login_append(r)
  \/ \E r \in 1..NumLogins : login_refetch(r)

SpecLogins == InitLogins /\ [][NextLogins]_vars

\* the logins run one at a time: none starts while another is between its awaits
NextLoginsSerial ==
  \/ \E r \in 1..NumLogins : (\A q \in 1..NumLogins : Free(q)) /\ googleLogin(r)
  \/ \E r \in 1..NumLogins : (\A q \in 1..NumLogins : Free(q)) /\ emailLogin(r)
  \/ \E r \in 1..NumLogins : login_findUser(r)
  \/ \E r \in 1..NumLogins : login_append(r)
  \/ \E r \in 1..NumLogins : login_refetch(r)

SpecLoginsSerial == InitLogins /\ [][NextLoginsSerial]_vars

(* ---------------------------------------------------------------------- *)
(* The store functions of googleSheetsService alone, called on one table   *)
(* whose header is (id, email)                                             *)
(* ---------------------------------------------------------------------- *)
\* the table never written, with its header only, or with one data row: one shorter
\* than the header, one with a blank first cell, one longer than the header, one as
\* long as it
InitStore ==
  /\ sheets \in {[Users |-> u, Admins |-> AdminsEmpty, Deals |-> <<DealsHeader>>] :
                   u \in { <<>>, << <<S_id, S_email>> >> } \cup
                         { << <<S_id, S_email>>, row >> :
                             row \in { <<ID_alice>>, <<EmptyString, E_alice>>,
                                       <<ID_alice, E_alice, N_Al>>, <<ID_bob, E_bob>> } }}
  /\ issued = {}
  /\ clock = 0
  /\ service = ReadyService
  /\ req = [r \in Slots |-> IdleReq]

\* a call of a store function that has returned or thrown: its arguments and outcome
storeCall(h, reachable, args, outcome) ==
  [IdleReq EXCEPT !.h = h, !.pc = "done", !.usersOk = reachable, !.in = args, !.res = outcome]

\* getSheetData(sheetName)
call_getSheetData(r) ==
  /\ Free(r)
  /\ \E reachable \in BOOLEAN :
       req' = [req EXCEPT ![r] =
                 storeCall("getSheetData", reachable, NoInput,
                           getSheetData(sheets["Users"], reachable))]
  /\ UNCHANGED <<sheets, issued, clock, service>>

\* getAllRows(sheetName)
call_getAllRows(r) ==
  /\ Free(r)
  /\ \E reachable \in BOOLEAN :
       req' = [req EXCEPT ![r] =
                 storeCall("getAllRows", reachable, NoInput,
                           getAllRows(getSheetData(sheets["Users"], reachable)))]
  /\ UNCHANGED <<sheets, issued, clock, service>>

\* findRowByValue(sheetName, columnName, searchValue)
call_findRowByValue(r) ==
  /\ Free(r)
  /\ \E reachable \in BOOLEAN, columnName \in {S_id, S_email, S_role},
        searchValue \in {EmptyString, ID_alice, E_bob, V_007} :
       req' = [req EXCEPT ![r] =
                 storeCall("findRowByValue", reachable,
                           [columnName |-> columnName, searchValue |-> searchValue],
                           findRowByValue(getSheetData(sheets["Users"], reachable),
                                          columnName, searchValue))]
  /\ UNCHANGED <<sheets, issued, clock, service>>

\* appendToSheet(sheetName, values)
call_appendToSheet(r) ==
  /\ Free(r)
  /\ Len(sheets["Users"]) < MaxRows
  /\ \E reachable \in BOOLEAN,
        values \in { <<ID_alice, Undefined>>, <<ID_bob, E_bob, N_Bo>>,
                     <<V_007, E_carol>>, <<V_quoted, EmptyString>> } :
       /\ req' = [req EXCEPT ![r] =
                    storeCall("appendToSheet", reachable, [values |-> values],
                              [t |-> IF reachable THEN "return" ELSE "throw"])]
       /\ sheets' = IF reachable
                      THEN [sheets EXCEPT !["Users"] = appendToSheet(@, values)]
                      ELSE sheets
  /\ UNCHANGED <<issued, clock, service>>

NextStore ==
  \/ \E r \in Slots : call_getSheetData(r)
  \/ \E r \in Slots : call_getAllRows(r)
  \/ \E r \in Slots : call_findRowByValue(r)
  \/ \E r \in Slots : call_appendToSheet(r)

SpecStore == InitStore /\ [][NextStore]_vars

(* ---------------------------------------------------------------------- *)
(* The start of every store function: await this.ensureInitialized()       *)
(* ---------------------------------------------------------------------- *)
NumCallers == 2

\* the service as its constructor leaves it
InitService ==
  /\ sheets = [Users |-> <<UsersHeader>>, Admins |-> AdminsEmpty, Deals |-> <<DealsHeader>>]
  /\ issued = {}
  /\ clock = 0
  /\ service = [initialized |-> FALSE, auth |-> 0, sheets |-> 0]
  /\ req = [r \in 1..NumCallers |-> IdleReq]

\* a store function is called: ensureInitialized tests the flag and, when it is not set,
\* runs initializeAuth up to `await this.auth.authorize()`, this.auth being a new client
ensureInitialized(r) ==
  /\ Free(r)
  /\ \E h \in {"getSheetData", "getAllRows", "findRowByValue", "appendToSheet"} :
       LET call == [IdleReq EXCEPT !.h = h]
       IN IF ~service.initialized
            THEN /\ service' = [service EXCEPT !.auth = r]
                 /\ req' = [req EXCEPT ![r] = [call EXCEPT !.pc = "authorize"]]
            ELSE /\ req' = [req EXCEPT ![r] = [call EXCEPT !.pc = "done"]]
                 /\ UNCHANGED service
  /\ UNCHANGED <<sheets, issued, clock>>

\* initializeAuth from the answer of authorize() on: this.sheets, this.initialized = true,
\* or the error thrown again
initializeAuth(r) ==
  /\ req[r].pc = "authorize"
  /\ \E authorized \in BOOLEAN :
       IF authorized
         THEN /\ service' = [service EXCEPT !.sheets = r, !.initialized = TRUE]
              /\ req' = [req EXCEPT ![r].pc = "done"]
         ELSE /\ req' = [req EXCEPT ![r] = sendError(req[r], 500, "authentication error")]
              /\ UNCHANGED service
  /\ UNCHANGED <<sheets, issued, clock>>

NextService ==
  \/ \E r \in 1..NumCallers : ensureInitialized(r)
  \/ \E r \in 1..NumCallers : initializeAuth(r)

SpecService == InitService /\ [][NextService]_vars

(* ---------------------------------------------------------------------- *)
(* The writing endpoints: createDeal, PUT /deals/:id/status and the        *)
(* admin-only routes of the admin router                                   *)
(* ---------------------------------------------------------------------- *)
\* googleSheetsService.generateId: the service object has no such property
generateId == Undefined

\* the row createDeal builds for a request body and a deal id
dealData(body, dealId) ==
  <<dealId, S_submitted, getCurrentTimestamp, body.companyName, body.domain,
    body.partnerCompany, body.submitterName, body.submitterEmail, body.territory,
    body.customerIndustry, body.customerLocation, body.dealStage, body.expectedCloseDate,
    body.dealValue, body.contractType, OrEmpty(body.primaryProduct),
    OrEmpty(body.additionalNotes), OrEmpty(body.customerLegalName)>>

\* createDeal up to its first await: the body is read and validated
createDeal(r) ==
  /\ req[r].h = "createDeal"
  /\ req[r].pc = "handler"
  /\ LET blank == [companyName |-> Undefined, domain |-> Undefined, partnerCompany |-> Undefined,
                   submitterName |-> Undefined, submitterEmail |-> Undefined,
                   territory |-> Undefined, customerLegalName |-> Undefined,
                   customerIndustry |-> Undefined, customerLocation |-> Undefined,
                   dealStage |-> Undefined, expectedCloseDate |-> Undefined,
                   dealValue |-> Undefined, contractType |-> Undefined,
                   primaryProduct |-> Undefined, additionalNotes |-> Undefined,
                   agreedToTerms |-> FALSE, status |-> Undefined]
         filled == [blank EXCEPT !.companyName = D_1, !.domain = D_1,
                                 !.partnerCompany = S_ExternalPartner, !.submitterName = N_Al,
                                 !.submitterEmail = E_alice, !.agreedToTerms = TRUE]
     IN \E body \in { filled,
                      [filled EXCEPT !.submitterEmail = E_bob, !.status = V_inactive,
                                     !.dealStage = V_inactive],
                      [filled EXCEPT !.companyName = C_acme, !.domain = W_zeta_io],
                      [filled EXCEPT !.submitterEmail = Undefined],
                      [filled EXCEPT !.agreedToTerms = FALSE] } :
          LET rq == [req[r] EXCEPT !.in = body]
          IN req' = [req EXCEPT ![r] =
                       IF \/ ~Truthy(body.companyName) \/ ~Truthy(body.domain)
                          \/ ~Truthy(body.partnerCompany) \/ ~Truthy(body.submitterName)
                          \/ ~Truthy(body.submitterEmail)
                         THEN sendError(rq, 400, "Missing required fields")
                       ELSE IF ~body.agreedToTerms
                         THEN sendError(rq, 400, "Must agree to terms and conditions")
                       ELSE [rq EXCEPT !.pc = "checkDuplicates"]]
  /\ UNCHANGED <<sheets, issued, clock, service>>

\* const duplicateCheck = await checkDuplicateDeals(companyName, domain); the 409, and
\* const dealId = googleSheetsService.generateId(): the call of a missing method throws
\* a TypeError, which the handler's catch answers with 500
createDeal_checkDuplicates(r) ==
  /\ req[r].h = "createDeal"
  /\ req[r].pc = "checkDuplicates"
  /\ \E reachable \in BOOLEAN :
       LET rq == req[r]
           duplicates == checkDuplicateDeals(getSheetData(sheets["Deals"], reachable),
                                             rq.in.companyName, rq.in.domain)
       IN req' = [req EXCEPT ![r] =
                    IF Len(duplicates) > 0
                      THEN [sendError(rq, 409, "Potential duplicate deal detected")
                              EXCEPT !.res.rows = duplicates, !.res.hasDuplicates = TRUE]
                    ELSE IF generateId = Undefined
                      THEN sendError(rq, 500, "Failed to create deal registration")
                    ELSE [rq EXCEPT !.pc = "appendDeal"]]
  /\ UNCHANGED <<sheets, issued, clock, service>>

\* const validStatuses = [...]
validStatuses == {S_submitted, <<"u", "n", "d", "e", "r", "_", "r", "e", "v", "i", "e", "w">>, <<"a", "p", "p", "r", "o", "v", "e", "d">>, S_rejected}

statusValid_any(status) == TRUE

\* validStatuses.includes(status)
statusValid(status) == status \in validStatuses

\* PUT /deals/:id/status up to its first await
updateStatus(r) ==
  /\ req[r].h = "updateStatus"
  /\ req[r].pc = "handler"
  /\ \E status \in {Undefined, V_inactive, <<"a", "p", "p", "r", "o", "v", "e", "d">>} :
       LET rq == [req[r] EXCEPT !.in = [NoInput EXCEPT !.status = status]]
       IN req' = [req EXCEPT ![r] =
                    IF ~statusValid(status) THEN sendError(rq, 400, "Invalid status")
                    ELSE [rq EXCEPT !.pc = "findDeal"]]
  /\ UNCHANGED <<sheets, issued, clock, service>>

\* const deal = await findRowByValue('Deals', 'id', id), the 404, the permission check
\* and the placeholder answer
updateStatus_findDeal(r) ==
  /\ req[r].h = "updateStatus"
  /\ req[r].pc = "findDeal"
  /\ \E reachable \in BOOLEAN :
       LET rq == req[r]
           deal == findRowByValue(getSheetData(sheets["Deals"], reachable), S_id, rq.path[1])
       IN req' = [req EXCEPT ![r] =
                    IF deal.t = "throw" THEN sendError(rq, 500, "Failed to update deal status")
                    ELSE IF deal.t = "null" THEN sendError(rq, 404, "Deal not found")
                    ELSE IF rq.user.role # S_admin
                            /\ Prop(deal.row, S_submitter_email) # rq.user.email
                      THEN sendError(rq, 403, "Permission denied")
                    ELSE sendRows(rq, <<>>)]
  /\ UNCHANGED <<sheets, issued, clock, service>>

\* GET /admin/pending-deals
pendingDeals(r) ==
  /\ req[r].h = "pendingDeals"
  /\ req[r].pc = "handler"
  /\ \E reachable \in BOOLEAN :
       LET rq == req[r]
           rd == getSheetData(sheets["Deals"], reachable)
           deals == rd.data
           pending(i) ==
             LET status == Prop(rowObject(deals[1], deals[i]), S_status)
             IN Truthy(status)
                /\ toLowerCase(status) \in {S_submitted, <<"p", "e", "n", "d", "i", "n", "g">>, <<"u", "n", "d", "e", "r", "_", "r", "e", "v", "i", "e", "w">>}
           idx == SelectSeq([i \in 1..(Len(deals) - 1) |-> i + 1], pending)
       IN req' = [req EXCEPT ![r] =
                    IF accessDenied(rq.user) THEN sendError(rq, 403, "Access denied")
                    ELSE IF ~rd.ok THEN sendError(rq, 500, "Failed to load pending deals")
                    ELSE IF Len(deals) <= 1 THEN sendRows(rq, <<>>)
                    ELSE sendRows(rq, [k \in DOMAIN idx |-> rowObject(deals[1], deals[idx[k]])])]
  /\ UNCHANGED <<sheets, issued, clock, service>>

\* POST /admin/deals/:id/approve and POST /admin/deals/:id/reject: the role check and
\* the answer; neither handler calls the store
approveOrReject(r) ==
  /\ req[r].h \in {"approve", "reject"}
  /\ req[r].pc = "handler"
  /\ req' = [req EXCEPT ![r] =
               IF accessDenied(req[r].user) THEN sendError(req[r], 403, "Access denied")
               ELSE sendRows(req[r], <<>>)]
  /\ UNCHANGED <<sheets, issued, clock, service>>

\* GET /admin/list
adminList(r) ==
  /\ req[r].h = "adminList"
  /\ req[r].pc = "handler"
  /\ \E reachable \in BOOLEAN :
       LET rq == req[r]
           rd == getSheetData(sheets["Admins"], reachable)
           adminsData == rd.data
           active(i) == Prop(rowObject(adminsData[1], adminsData[i]), S_status) = S_active
           idx == SelectSeq([i \in 1..(Len(adminsData) - 1) |-> i + 1], active)
       IN req' = [req EXCEPT ![r] =
                    IF accessDenied(rq.user) THEN sendError(rq, 403, "Access denied")
                    ELSE IF ~rd.ok \/ Len(adminsData) <= 1 THEN sendRows(rq, <<>>)
                    ELSE sendRows(rq, [k \in DOMAIN idx |->
                                         rowObject(adminsData[1], adminsData[idx[k]])])]
  /\ UNCHANGED <<sheets, issued, clock, service>>

\* POST /admin/remove: the role check, the checks of the body and the answer; the
\* handler does not call the store
adminRemove(r) ==
  /\ req[r].h = "adminRemove"
  /\ req[r].pc = "handler"
  /\ \E email \in {Undefined, E_ALICE, E_bob} :
       LET rq == [req[r] EXCEPT !.in = [NoInput EXCEPT !.email = email]]
       IN req' = [req EXCEPT ![r] =
                    IF accessDenied(rq.user) THEN sendError(rq, 403, "Access denied")
                    ELSE IF ~Truthy(email) \/ ~Truthy(trim(email))
                      THEN sendError(rq, 400, "Email required")
                    ELSE IF toLowerCase(email) = toLowerCase(rq.user.email)
                      THEN sendError(rq, 400, "Cannot remove self")
                    ELSE sendRows(rq, <<>>)]
  /\ UNCHANGED <<sheets, issued, clock, service>>

\* the requests sent to these endpoints
WriteRequests ==
  { [routes |-> DealsRoutes, method |-> "POST", path |-> <<>>],
    [routes |-> DealsRoutes, method |-> "PUT",  path |-> <<D_1, S_status>>],
    [routes |-> DealsRoutes, method |-> "PUT",  path |-> <<D_2, S_status>>],
    [routes |-> AdminRoutes, method |-> "GET",  path |-> <<<<"p", "e", "n", "d", "i", "n", "g", "-", "d", "e", "a", "l", "s">>>>],
    [routes |-> AdminRoutes, method |-> "POST", path |-> <<S_deals, D_2, <<"a", "p", "p", "r", "o", "v", "e">>>>],
    [routes |-> AdminRoutes, method |-> "POST", path |-> <<S_deals, D_2, <<"r", "e", "j", "e", "c", "t">>>>],
    [routes |-> AdminRoutes, method |-> "POST", path |-> <<S_add>>],
    [routes |-> AdminRoutes, method |-> "GET",  path |-> <<<<"l", "i", "s", "t">>>>],
    [routes |-> AdminRoutes, method |-> "POST", path |-> <<<<"r", "e", "m", "o", "v", "e">>>>] }

NextWrites ==
  \/ \E r \in Slots : authenticateToken(r, WriteRequests)
  \/ \E r \in Slots : authenticateToken_findUser(r)
  \/ \E r \in Slots : authenticateToken_checkAdmin(r)
  \/ \E r \in Slots : createDeal(r)
  \/ \E r \in Slots : createDeal_checkDuplicates(r)
  \/ \E r \in Slots : updateStatus(r)
  \/ \E r \in Slots : updateStatus_findDeal(r)
  \/ \E r \in Slots : pendingDeals(r)
  \/ \E r \in Slots : approveOrReject(r)
  \/ \E r \in Slots : adminList(r)
  \/ \E r \in Slots : adminRemove(r)
  \/ \E r \in Slots : adminAdd(r)
  \/ \E r \in Slots : adminAdd_header(r)
  \/ \E r \in Slots : adminAdd_append(r)

SpecWrites == InitDeals /\ [][NextWrites]_vars

(* ---------------------------------------------------------------------- *)
(* C11                                                                     *)
(* ---------------------------------------------------------------------- *)
C11_Step(r) ==
  ( /\ MiddlewareStep(r, "authenticateToken", "checkAdmin")
    /\ (~req'[r].adminsOk \/ sheets["Admins"] = <<>>) ) =>
    LET i == firstUserRow(sheets["Users"], req[r].hdr.payload.id)
    IN /\ i # 0
       /\ Identified(req'[r])
       /\ ~req'[r].isAdmin
       /\ req'[r].user.role = cell(sheets["Users"][i], 6)

\* C11: when the Admins sheet cannot be read, or was never written, checkAdminStatus
\* answers false and authenticateToken still passes the request of an active user on,
\* with the role cell of the User row as its role, and sends no error.
C11_UnreadableAllowlistFallsBack == [][\A r \in Slots : C11_Step(r)]_vars

\* a user whom the Admins sheet lists as active went on with the stored role 'user'
\* because the sheet could not be read
C11_Witness ==
  \E r \in Slots :
    /\ req[r].mw = "authenticateToken"
    /\ req[r].user.isSet
    /\ ~req[r].adminsOk
    /\ req[r].user.role = S_user
    /\ ActiveAdminRow(sheets["Admins"], req[r].user.email)

(* ---------------------------------------------------------------------- *)
(* C12                                                                     *)
(* ---------------------------------------------------------------------- *)
\* the data rows of the Users grid whose second cell, the email, is `email`
rowsWithEmail(grid, email) == {i \in 2..Len(grid) : cell(grid[i], 2) = email}

C12_OneRowPerEmail ==
  \A i \in 2..Len(sheets["Users"]) :
    Cardinality(rowsWithEmail(sheets["Users"], cell(sheets["Users"][i], 2))) = 1

C12_Step(r) ==
  ( /\ req[r].h \in {"googleLogin", "emailLogin"}
    /\ sheets'["Users"] # sheets["Users"] ) =>
    rowsWithEmail(sheets["Users"], req[r].in.email) = {}

\* C12: while logins run one at a time, each to completion, over a Users sheet in which
\* no two rows share an email, the sheet never holds two rows with the same email, and
\* a login appends a row only when no row with its email is there.
C12_SerialLoginsKeepEmailsUnique ==
  /\ []C12_OneRowPerEmail
  /\ [][\A r \in DOMAIN req : req'[r] # req[r] => C12_Step(r)]_vars

\* two logins for one email ran one after the other, both answered, one row is there
C12_Witness ==
  \E r, q \in DOMAIN req :
    /\ r # q
    /\ req[r].h = "googleLogin" /\ req[q].h = "googleLogin"
    /\ req[r].in.email = req[q].in.email
    /\ req[r].res.status = 200 /\ req[q].res.status = 200
    /\ Len(sheets["Users"]) = 2
    /\ Cardinality(rowsWithEmail(sheets["Users"], req[r].in.email)) = 1

(* ---------------------------------------------------------------------- *)
(* C13                                                                     *)
(* ---------------------------------------------------------------------- *)
C13_Step(r) ==
  /\ (req[r].pc = "findUser" /\ req'[r].pc = "append") => sheets' = sheets
  /\ (req[r].pc = "append" /\ req'[r].pc = "refetch") =>
       /\ Len(sheets'["Users"]) = Len(sheets["Users"]) + 1
       /\ SubSeq(sheets'["Users"], 1, Len(sheets["Users"])) = sheets["Users"]
       /\ cell(sheets'["Users"][Len(sheets'["Users"])], 2) = req[r].in.email

\* C13: a login's lookup that finds no row writes nothing, and its append, when the
\* store takes it, adds one row with the login's email whatever the sheet holds by
\* then; so two logins for one new email that both look up before either appends
\* leave two rows with that email.
C13_AppendAfterLookupIsUnguarded ==
  [][\A r \in DOMAIN req : req'[r] # req[r] => C13_Step(r)]_vars

\* two googleLogin calls for one email were both answered with a token and the Users
\* sheet holds two rows with that email
C13_Witness ==
  \E r, q \in DOMAIN req :
    /\ r # q
    /\ req[r].h = "googleLogin" /\ req[q].h = "googleLogin"
    /\ req[r].in.email = req[q].in.email
    /\ req[r].res.status = 200 /\ req[q].res.status = 200
    /\ Cardinality(rowsWithEmail(sheets["Users"], req[r].in.email)) = 2

(* ---------------------------------------------------------------------- *)
(* C14                                                                     *)
(* ---------------------------------------------------------------------- *)
C14_Step(r) ==
  ( /\ req[r].h \in {"googleLogin", "emailLogin"}
    /\ sheets'["Users"] # sheets["Users"] ) =>
    LET row == sheets'["Users"][Len(sheets'["Users"])]
    IN /\ cell(row, 6) = S_user
       /\ cell(row, 7) = S_active
       /\ cell(row, 5) = getPartnerCompanyFromEmail(req[r].in.email)

\* C14: every row that a login flow appends to the Users sheet has role 'user',
\* status 'active' and the partner company that its email's domain maps to.
C14_AppendedUserRowIsPlainUser ==
  [][\A r \in DOMAIN req : req'[r] # req[r] => C14_Step(r)]_vars

(* ---------------------------------------------------------------------- *)
(* C15                                                                     *)
(* ---------------------------------------------------------------------- *)
C15_Step(r) ==
  ( /\ req[r].h \in {"googleLogin", "emailLogin"}
    /\ \E i \in rowsWithEmail(sheets["Users"], req[r].in.email) :
         cell(sheets["Users"][i], 7) # S_active ) =>
    /\ issued' = issued
    /\ req'[r].res.token = NoPayload

\* C15: a login for an email whose row in the Users sheet has a status other than
\* 'active' signs no token.
C15_InactiveUserGetsNoToken ==
  [][\A r \in DOMAIN req : req'[r] # req[r] => C15_Step(r)]_vars

(* ---------------------------------------------------------------------- *)
(* C16                                                                     *)
(* ---------------------------------------------------------------------- *)
\* slot r has just made a call of store function h that reached the store
Called(r, h) == req'[r] # req[r] /\ req'[r].h = h /\ req'[r].usersOk

\* the columns of a grid's header row; none when the grid has no row
headerColumns(grid) == IF grid = <<>> THEN {} ELSE {grid[1][k] : k \in DOMAIN grid[1]}

C16_Step(r) ==
  Called(r, "getAllRows") =>
    LET grid == sheets["Users"]
        out == req'[r].res
    IN /\ out.t = "return"
       /\ Len(out.rows) = IF Len(grid) < 2 THEN 0 ELSE Len(grid) - 1
       /\ \A i \in DOMAIN out.rows :
            /\ DOMAIN out.rows[i] = headerColumns(grid)
            /\ \A k \in DOMAIN grid[1] :
                 /\ out.rows[i][grid[1][k]] = cell(grid[i + 1], k)
                 /\ out.rows[i][grid[1][k]] # Undefined

\* C16: getAllRows returns one mapping per data row, in sheet order; each mapping's
\* keys are exactly the header's columns and each value is the row's cell in that
\* column, the empty string when the cell is missing or blank, never undefined,
\* whether the row has fewer or more cells than the header.
C16_GetAllRowsNormalises == [][\A r \in DOMAIN req : C16_Step(r)]_vars

\* getAllRows returned two mappings for a sheet with a row shorter than the header
\* and a row longer than it
C16_Witness ==
  \E r \in DOMAIN req :
    /\ req[r].h = "getAllRows"
    /\ req[r].res.t = "return"
    /\ Len(req[r].res.rows) = 2
    /\ Len(sheets["Users"]) = 3
    /\ \E i, j \in 2..3 : /\ Len(sheets["Users"][i]) < Len(sheets["Users"][1])
                          /\ Len(sheets["Users"][j]) > Len(sheets["Users"][1])

(* ---------------------------------------------------------------------- *)
(* C17                                                                     *)
(* ---------------------------------------------------------------------- *)
\* the data rows of a grid whose cell in column k is `v`, a missing cell being ''
rowsWithCell(grid, k, v) == {i \in 2..Len(grid) : cell(grid[i], k) = v}

C17_Step(r) ==
  ( /\ Called(r, "findRowByValue")
    /\ req'[r].in.columnName \in headerColumns(sheets["Users"]) ) =>
    LET grid == sheets["Users"]
        k == CHOOSE k \in DOMAIN grid[1] : grid[1][k] = req'[r].in.columnName
        hits == rowsWithCell(grid, k, req'[r].in.searchValue)
        out == req'[r].res
    IN /\ out.t = "row" <=> hits # {}
       /\ out.t = "row" =>
            \E i \in hits :
              /\ \A j \in hits : i <= j
              /\ \A n \in DOMAIN grid[1] : out.row[grid[1][n]] = cell(grid[i], n)

\* C17: findRowByValue(T, c, v) returns a row exactly when some data row of T has v in
\* column c, a missing or blank cell counting as the empty string, and the row it
\* returns is the first such row.
C17_FindReturnsFirstMatch == [][\A r \in DOMAIN req : C17_Step(r)]_vars

(* ---------------------------------------------------------------------- *)
(* C18                                                                     *)
(* ---------------------------------------------------------------------- *)
C18_Step(r) ==
  ( /\ Called(r, "findRowByValue")
    /\ req'[r].in.columnName \notin headerColumns(sheets["Users"]) ) =>
    /\ req'[r].res.t = "throw"
    /\ req'[r].res.error = "Column not found"

\* C18: findRowByValue fails with the column-not-found error whenever columnName is
\* not a column of the header, whatever the table holds, a table without any row
\* included.
C18_UnknownColumnFails == [][\A r \in DOMAIN req : C18_Step(r)]_vars

(* ---------------------------------------------------------------------- *)
(* C19                                                                     *)
(* ---------------------------------------------------------------------- *)
\* JavaScript's  v || ''  read off the value itself
blankAsEmpty(values, k) ==
  IF k \in DOMAIN values /\ values[k] # Undefined THEN values[k] ELSE EmptyString

C19_Step(r) ==
  Called(r, "appendToSheet") =>
    LET grid == sheets'["Users"]
        values == req'[r].in.values
    IN \A k \in DOMAIN grid[1] :
         ( /\ Len(sheets["Users"]) > 0
           /\ blankAsEmpty(values, k) # EmptyString
           /\ \A i \in 2..(Len(grid) - 1) : cell(grid[i], k) # values[k] ) =>
           LET found == findRowByValue(getSheetData(grid, TRUE), grid[1][k], values[k])
           IN /\ found.t = "row"
              /\ \A n \in DOMAIN grid[1] : found.row[grid[1][n]] = blankAsEmpty(values, n)

\* C19: after appendToSheet(T, values), findRowByValue(T, c, values[c]) on a column c
\* whose appended value is not blank and is in no other row returns the mapping of
\* the header's columns to exactly the appended values, blank values as ''.
C19_AppendThenFindRoundTrips == [][\A r \in DOMAIN req : C19_Step(r)]_vars

(* ---------------------------------------------------------------------- *)
(* C20                                                                     *)
(* ---------------------------------------------------------------------- *)
C20_Step(r) ==
  ( /\ req'[r] # req[r]
    /\ req'[r].h \in {"getSheetData", "getAllRows", "findRowByValue", "appendToSheet"}
    /\ ~req'[r].usersOk ) =>
    /\ sheets' = sheets
    /\ IF req'[r].h = "getSheetData" THEN ~req'[r].res.ok ELSE req'[r].res.t = "throw"

\* C20: a call of getSheetData, getAllRows, findRowByValue or appendToSheet that cannot
\* reach the store throws: it returns no grid, no list, no row, no absent row and no
\* success, and writes nothing.
C20_StoreFailurePropagates == [][\A r \in DOMAIN req : C20_Step(r)]_vars

\* findRowByValue has thrown the store's error on a table that holds rows
C20_Witness ==
  \E r \in DOMAIN req :
    /\ req[r].h = "findRowByValue"
    /\ ~req[r].usersOk
    /\ req[r].res.t = "throw"
    /\ req[r].res.error = "store error"
    /\ Len(sheets["Users"]) > 1

(* ---------------------------------------------------------------------- *)
(* C21                                                                     *)
(* ---------------------------------------------------------------------- *)
C21_Step(r) ==
  ( /\ req[r].h = "adminAdd"
    /\ req[r].pc = "addHeader"
    /\ sheets'["Admins"] # sheets["Admins"] ) =>
    sheets["Admins"] = <<>>

\* C21: POST /admin/add writes the column-name row of the Admins sheet only when the
\* sheet holds no row, also when its read of the sheet has failed.
C21_HeaderOnlyIntoEmptySheet == [][\A r \in DOMAIN req : C21_Step(r)]_vars

(* ---------------------------------------------------------------------- *)
(* C22                                                                     *)
(* ---------------------------------------------------------------------- *)
\* call r runs initializeAuth to success in this step
InitializeAuthSucceeds(r) ==
  req[r].pc = "authorize" /\ req'[r].pc = "done" /\ req'[r].res.status = 0

C22_Step(r) ==
  /\ InitializeAuthSucceeds(r) => ~service.initialized
  /\ (service.initialized /\ req'[r] # req[r]) => req'[r].pc # "authorize"

\* C22: initializeAuth runs to success at most once, that is, never when initialized is
\* already true, and no call starts it once initialized is true.
C22_InitializedOnce == [][\A r \in DOMAIN req : C22_Step(r)]_vars

\* request r has reached the createDeal handler with a body that holds every required
\* field and agrees to the terms
PassedValidation(r) ==
  /\ r \in DOMAIN req
  /\ req[r].h = "createDeal"
  /\ req[r].pc \in {"checkDuplicates", "done"}
  /\ "agreedToTerms" \in DOMAIN req[r].in
  /\ req[r].in.agreedToTerms
  /\ \A f \in {"companyName", "domain", "partnerCompany", "submitterName", "submitterEmail"} :
       req[r].in[f] \notin {Undefined, EmptyString}

nonRejectedMatches(grid, companyName, domain) ==
  { i \in 2..Len(grid) :
      /\ cell(grid[i], 2) # S_rejected
      /\ \/ toLowerCase(cell(grid[i], 4)) = toLowerCase(companyName)
         \/ toLowerCase(cell(grid[i], 5)) = toLowerCase(domain) }

\* C24: a createDeal request with all required fields and agreed terms, for which the
\* Deals table holds no duplicate, is answered with 201 and the table holds a
\* 'submitted' row for the posted company.
C24_ValidDealIsCreated ==
  \A r \in DOMAIN req :
    ( /\ PassedValidation(r)
      /\ req[r].pc = "done"
      /\ nonRejectedMatches(sheets["Deals"], req[r].in.companyName, req[r].in.domain) = {} )
    => /\ req[r].res.status = 201
       /\ \E i \in 2..Len(sheets["Deals"]) :
            /\ cell(sheets["Deals"][i], 2) = S_submitted
            /\ cell(sheets["Deals"][i], 4) = req[r].in.companyName

C29_Step(r) ==
  (req[r].h = "createDeal" /\ req[r].pc = "checkDuplicates" /\ req'[r] # req[r])
  => ( req'[r].res.status = 409
       <=> nonRejectedMatches(sheets["Deals"], req[r].in.companyName, req[r].in.domain) # {} )

\* C29: createDeal answers with the 409 of its duplicate check exactly when the Deals
\* table holds a row that is not 'rejected' and whose company name or domain equals the
\* posted one up to letter case; in particular it never passes the check while such a
\* row exists, whether or not the table could be read.
C29_DuplicateNeverMissed == [][\A r \in DOMAIN req : C29_Step(r)]_vars

C26_Step(r) ==
  /\ ( /\ req[r].h = "updateStatus" /\ req[r].pc = "handler" /\ req'[r] # req[r]
       /\ req'[r].in.status \notin {<<"s", "u", "b", "m", "i", "t", "t", "e", "d">>, <<"u", "n", "d", "e", "r", "_", "r", "e", "v", "i", "e", "w">>, <<"a", "p", "p", "r", "o", "v", "e", "d">>, <<"r", "e", "j", "e", "c", "t", "e", "d">>} )
     => /\ req'[r].pc = "done"
        /\ req'[r].res.status = 400
        /\ sheets' = sheets
  /\ ( /\ req[r].h = "createDeal" /\ req[r].pc = "handler" /\ req'[r] # req[r]
       /\ req'[r].in.agreedToTerms
       /\ \A f \in {"companyName", "domain", "partnerCompany", "submitterName", "submitterEmail"} :
            req'[r].in[f] \notin {Undefined, EmptyString} )
     => req'[r].pc = "checkDuplicates"

\* C26: a PUT /deals/:id/status whose status is none of submitted, under_review,
\* approved, rejected is answered with 400 in the handler's first step, before the
\* lookup of the deal, and no table changes; createDeal accepts a body with all required
\* fields and agreed terms whatever status-like values it carries.
C26_InvalidStatusRejectedFirst == [][\A r \in DOMAIN req : C26_Step(r)]_vars

\* C26: a status update with the status 'inactive' was refused with 400
C26_Witness ==
  \E r \in DOMAIN req :
    /\ req[r].h = "updateStatus" /\ req[r].pc = "done"
    /\ req[r].res.status = 400 /\ req[r].in.status = V_inactive

\* the handlers of the admin-only endpoints
AdminOnly == {"pendingDeals", "approve", "reject", "adminAdd", "adminList", "adminRemove"}

C27_Step(r) ==
  /\ ( /\ req[r].h \in AdminOnly /\ req[r].pc = "handler" /\ req'[r] # req[r]
       /\ req[r].user.role # S_admin )
     => /\ req'[r].pc = "done"
        /\ req'[r].res.status = 403
        /\ sheets' = sheets
  /\ (req'[r] # req[r] /\ sheets'["Admins"] # sheets["Admins"])
     => req[r].user.role = S_admin

\* C27: a request that reaches the handler of an admin-only endpoint (pending-deals,
\* approve, reject, add, list, remove) with an effective role other than 'admin' is
\* answered with 403 in the handler's first step, whether or not the store can be read,
\* and no table changes; every step that changes the Admins table belongs to a
\* request whose effective role is 'admin'.
C27_AdminOnlyEndpointsRefuseOthers == [][\A r \in DOMAIN req : C27_Step(r)]_vars

\* C27: an identified user who is not an admin was refused by an admin-only endpoint
C27_Witness ==
  \E r \in DOMAIN req :
    /\ req[r].h \in AdminOnly /\ req[r].pc = "done"
    /\ req[r].user.isSet /\ req[r].user.role = S_user
    /\ req[r].res.status = 403

C25_Step(r) ==
  ( /\ req[r].h \in {"approve", "reject"} /\ req[r].pc = "handler"
    /\ req'[r].pc = "done" /\ req'[r].res.status = 200 )
  => \E i \in 2..Len(sheets'["Deals"]) :
       /\ cell(sheets'["Deals"][i], 1) = req[r].path[2]
       /\ cell(sheets'["Deals"][i], 2) = IF req[r].h = "approve" THEN <<"a", "p", "p", "r", "o", "v", "e", "d">> ELSE S_rejected

\* C25: when POST /admin/deals/:id/approve (or /reject) is answered with success, the
\* Deals table holds a row with that id whose status is 'approved' (or 'rejected').
C25_AnsweredDecisionIsStored == [][\A r \in DOMAIN req : C25_Step(r)]_vars

C28_Step(r) ==
  ( /\ req[r].h = "adminRemove" /\ req[r].pc = "handler"
    /\ req'[r].pc = "done" /\ req'[r].res.status = 200 )
  => /\ toLowerCase(req'[r].in.email) # toLowerCase(req[r].user.email)
     /\ ~ActiveAdminRow(sheets'["Admins"], req'[r].in.email)

\* C28: when POST /admin/remove is answered with success for an email, that email is not
\* the caller's own (up to letter case) and the Admins table holds no active row for it
\* any more, so that the allowlist no longer makes its user an admin.
C28_RemovedAdminLeavesAllowlist == [][\A r \in DOMAIN req : C28_Step(r)]_vars

\* C30: an authenticated GET request is handed to the my-deals handler when its
\* path is /my-deals and by the statistics handler when its path is /stats/summary;
\* the handler of GET /:id gets neither.
C30_OwnHandlersServeFixedPaths ==
  \A r \in DOMAIN req :
    (req[r].pc = "handler" /\ req[r].method = "GET")
    => /\ req[r].path = <<S_my_deals>> => req[r].h = "myDeals"
       /\ req[r].path = <<S_stats, S_summary>> => req[r].h = "statsSummary"
====
